---- MODULE Spec2Model ----
(***************************************************************************)
(* Model of JobpowercraftAI.                                               *)
(*   src/src/libs/llm_manager.py                                           *)
(*     LoggerChatModel.__call__   (the retry loop)                         *)
(*     LLMLogger.log_request      (the request log)                        *)
(*     OpenAIModel/ClaudeModel/... .invoke (provider error translation)    *)
(*     AIAdapter.invoke, GPTAnswerer.__init__ (the assembled stack)        *)
(*   src/src/security_utils.py                                             *)
(*     SecurityValidator.validate_job_url, validate_email                  *)
(*     SecurePasswordManager.get_smtp_password                             *)
(*   src/src/email_sender.py                                               *)
(*     EmailSender: _load_email_config, connect, disconnect,               *)
(*     send_job_application, send_bulk_applications, _sanitize_email_field *)
(*   src/src/job_scrapers.py, shared_job_scraper.py, src/main.py           *)
(*     the scrape_job methods and the other loaders of a job URL           *)
(*   src/src/utils/browser_pool.py                                         *)
(*     BrowserPool, BrowserSession, get_browser / cleanup / reset          *)
(*   src/src/libs/resume_and_cover_builder/model_manager.py                *)
(*     ModelManager: the selection of a model and a template               *)
(*   src/src/automated_job_applier.py                                      *)
(*     JobCraftAI.run_automated_application_process                        *)
(* Times are in milliseconds so that 'retry-after-ms' / 1000.0 stays an    *)
(* integer.  Texts the code inspects are sequences of characters.          *)
(***************************************************************************)
EXTENDS Integers, Sequences, FiniteSets, TLC

VARIABLES llm, pc, retry_count, calls, sleeps, trace, raw, exc, result, error,
          logged, url_check, email_check, field, mail, scrape, pool, manager,
          applier

\* the state of one LoggerChatModel object; logged holds the content-carrying
\* log writes of the current invocation
invokerVars ==
  <<llm, pc, retry_count, calls, sleeps, trace, raw, exc, result, error, logged>>

\* the state of the other components
notInvoker == <<url_check, email_check, field, mail, scrape, pool, manager, applier>>

vars == <<invokerVars, notInvoker>>

(***************************************************************************)
(* Bounds of the model.                                                    *)
(***************************************************************************)
\* longest header text the server sends in 'retry-after' / 'retry-after-ms'
MaxHeaderLen == 3

\* threads that call into the browser pool at the same time
NumCallers == 2

\* most Chrome browsers init_browser() is asked for
MaxBrowsers == 3

\* most applications in one send_bulk_applications call
MaxApplications == 2

\* most job listings a search brings
MaxFound == 3

\* most pieces a host name is put together from
MaxHostPieces == 2

\* most pieces an e-mail address is put together from
MaxEmailPieces == 3

\* longest text handed to the header field sanitizer
MaxFieldLen == 4

(***************************************************************************)
(* Program constants.                                                      *)
(***************************************************************************)
max_retries_4 == 3 + 1

\* llm_manager.py:590   max_retries = 3
max_retries == 3

default_wait_90 == 3 * 30

\* llm_manager.py:632   wait_time = 30
default_wait == 30

\* llm_manager.py:647, 669, 698   min(2 ** retry_count, 60)
backoff_cap == 60

(***************************************************************************)
(* Header values.  headers.get(name) is None when the header is absent and *)
(* the header's text otherwise; a text is a sequence of characters.        *)
(***************************************************************************)
Chars == {"2", "-"}

Digits == {"2"}

DigitVal(c) == 2

RECURSIVE TextsOfLen(_)
TextsOfLen(n) ==
  IF n = 0 THEN {<<>>}
  ELSE {Append(t, c) : t \in TextsOfLen(n - 1), c \in Chars}

HeaderTexts == UNION {TextsOfLen(n) : n \in 0..MaxHeaderLen}

NoHeader == [present |-> FALSE, text |-> <<>>]

HeaderValues == {NoHeader} \cup {[present |-> TRUE, text |-> t] : t \in HeaderTexts}

\* Python truthiness of headers.get(...): None and "" are falsy
Truthy(h) == h.present /\ h.text # <<>>

\* int(text): an optional sign followed by one or more digits; anything else
\* raises ValueError
Unsigned(t) == IF Len(t) > 0 /\ t[1] = "-" THEN Tail(t) ELSE t

IsIntLiteral(t) ==
  /\ Len(Unsigned(t)) > 0
  /\ \A i \in 1..Len(Unsigned(t)) : Unsigned(t)[i] \in Digits

RECURSIVE DigitsValue(_)
DigitsValue(t) ==
  IF t = <<>> THEN 0
  ELSE 10 * DigitsValue(SubSeq(t, 1, Len(t) - 1)) + DigitVal(t[Len(t)])

ParseInt(t) ==
  IF Len(t) > 0 /\ t[1] = "-" THEN 0 - DigitsValue(Unsigned(t))
  ELSE DigitsValue(t)

(***************************************************************************)
(* Outcomes of one call of the vendor SDK (self.model.invoke) and the      *)
(* exceptions the invoker can catch.                                       *)
(***************************************************************************)
Replies == {"reply_a", "reply_b"}

Statuses == {401, 403, 429, 500, 503}

Outcome(k, s, ra, ram, r) ==
  [kind |-> k, status |-> s, retry_after |-> ra, retry_after_ms |-> ram, reply |-> r]

NoOutcome == Outcome("none", 0, NoHeader, NoHeader, "none")

Ok(r) == Outcome("ok", 0, NoHeader, NoHeader, r)

Raise(k) == Outcome(k, 0, NoHeader, NoHeader, "none")

\* the 'retry-after-ms' values sent along with a 'retry-after' header that is
\* used: its text is never converted then, so absent and one text stand for all
MsValuesBeside(ra) ==
  IF Truthy(ra) THEN {NoHeader, [present |-> TRUE, text |-> <<"2">>]} ELSE HeaderValues

\* the response headers are read only when the status is 429
HTTPStatusErrors ==
  {Outcome("HTTPStatusError", 429, h[1], h[2], "none") :
     h \in {p \in HeaderValues \X HeaderValues : p[2] \in MsValuesBeside(p[1])}}
  \cup {Outcome("HTTPStatusError", s, NoHeader, NoHeader, "none") : s \in Statuses \ {429}}

RawOutcomes ==
  {Ok(r) : r \in Replies}
  \cup HTTPStatusErrors
  \cup {Raise(k) : k \in {"TimeoutException", "ConnectError", "ConnectionError",
                          "ValueError", "RuntimeError"}}

(***************************************************************************)
(* The llm handed to LoggerChatModel: one of the provider models reached   *)
(* through AIAdapter, or any other object with invoke() that lets the      *)
(* SDK's exceptions through ("Transport").                                 *)
(***************************************************************************)
Providers == {"OpenAIModel", "ClaudeModel", "OllamaModel", "PerplexityModel",
              "GeminiModel", "HuggingFaceModel"}

Backends == Providers \cup {"Transport"}

OpenAIModel_invoke(o) ==
  CASE o.kind = "ok" -> o
    [] o.kind = "TimeoutException" -> Raise("ValueError")
    [] o.kind = "HTTPStatusError" ->
         IF o.status = 401 THEN Raise("ValueError")
         ELSE IF o.status = 429 THEN Raise("ValueError")
         ELSE IF o.status >= 500 THEN Raise("ConnectionError")
         ELSE Raise("ValueError")
    [] OTHER -> Raise("ValueError")

ClaudeModel_invoke(o) ==
  CASE o.kind = "ok" -> o
    [] o.kind = "TimeoutException" -> Raise("ValueError")
    [] o.kind = "HTTPStatusError" ->
         IF o.status = 401 THEN Raise("ValueError")
         ELSE IF o.status = 429 THEN Raise("ValueError")
         ELSE IF o.status >= 500 THEN Raise("ConnectionError")
         ELSE Raise("ValueError")
    [] OTHER -> Raise("ValueError")

OllamaModel_invoke(o) ==
  CASE o.kind = "ok" -> o
    [] o.kind = "ConnectError" -> Raise("ConnectionError")
    [] o.kind = "TimeoutException" -> Raise("ValueError")
    [] OTHER -> Raise("ValueError")

PerplexityModel_invoke(o) ==
  CASE o.kind = "ok" -> o
    [] o.kind = "TimeoutException" -> Raise("ValueError")
    [] o.kind = "HTTPStatusError" -> Raise("ValueError")
    [] OTHER -> Raise("ValueError")

GeminiModel_invoke(o) ==
  CASE o.kind = "ok" -> o
    [] o.kind = "TimeoutException" -> Raise("ValueError")
    [] o.kind = "HTTPStatusError" ->
         IF o.status = 401 THEN Raise("ValueError")
         ELSE IF o.status = 429 THEN Raise("ValueError")
         ELSE Raise("ValueError")
    [] OTHER -> Raise("ValueError")

HuggingFaceModel_invoke(o) ==
  CASE o.kind = "ok" -> o
    [] o.kind = "TimeoutException" -> Raise("ValueError")
    [] o.kind = "HTTPStatusError" -> Raise("ValueError")
    [] OTHER -> Raise("ValueError")

\* AIAdapter.invoke delegates to the model chosen by _create_model
AIAdapter_invoke(m, o) ==
  CASE m = "OpenAIModel" -> OpenAIModel_invoke(o)
    [] m = "ClaudeModel" -> ClaudeModel_invoke(o)
    [] m = "OllamaModel" -> OllamaModel_invoke(o)
    [] m = "PerplexityModel" -> PerplexityModel_invoke(o)
    [] m = "GeminiModel" -> GeminiModel_invoke(o)
    [] m = "HuggingFaceModel" -> HuggingFaceModel_invoke(o)

\* reply = self.llm.invoke(messages)
llm_invoke(m, o) == IF m \in Providers THEN AIAdapter_invoke(m, o) ELSE o

\* the three statements of the try block: invoke, parse_llmresult, log_request.
\* parse_llmresult re-raises KeyError/AttributeError, log_request re-raises
\* KeyError/OSError; the result is the reply or the exception that leaves the
\* try block.
TryBlock(m, o, parse_ok, log_ok) ==
  LET reply == llm_invoke(m, o) IN
    IF reply.kind # "ok" THEN reply
    ELSE IF ~parse_ok THEN Raise("KeyError")
    ELSE IF ~log_ok THEN Raise("OSError")
    ELSE reply

\* every way one run of the try block can end on backend m: the SDK outcome
\* and what leaves the try block
TryOutcomesOf ==
  [m \in Backends |->
     {[raw |-> o, e |-> TryBlock(m, o, parse_ok, log_ok)] :
        o \in RawOutcomes, parse_ok \in BOOLEAN, log_ok \in BOOLEAN}]

TryOutcomes(m) == TryOutcomesOf[m]

\* a write to a log sink: the loguru logger or the file open_ai_calls.json;
\* carries says whose content is in it, sanitized whether that content went
\* through SecurityValidator.sanitize_for_logging first
LogWrite(sink, carries, sanitized) ==
  [sink |-> sink, carries |-> carries, sanitized |-> sanitized]

\* logger.debug(f"Entering __call__ method with messages: {messages}")
EntryLogs == {LogWrite("logger", "prompt", FALSE)}

\* logger.debug(f"LLM response received: {reply}")
ReplyLogs == {LogWrite("logger", "reply", FALSE)}

\* logger.debug(f"Parsed LLM reply: {parsed_reply}")
ParsedReplyLogs == {LogWrite("logger", "reply", FALSE)}

\* LLMLogger.log_request: prompts and reply content are sanitized, then the
\* entry is appended to open_ai_calls.json
RequestLogs ==
  {LogWrite("open_ai_calls.json", "prompt", TRUE),
   LogWrite("open_ai_calls.json", "reply", TRUE)}

\* the content-carrying log writes of one run of the try block on backend m
\* with SDK outcome o that ended with e
TryLogs(m, o, e) ==
  IF llm_invoke(m, o).kind # "ok" THEN {}
  ELSE IF e.kind = "KeyError" THEN ReplyLogs
  ELSE IF e.kind = "OSError" THEN ReplyLogs \cup ParsedReplyLogs
  ELSE ReplyLogs \cup ParsedReplyLogs \cup RequestLogs

\* which except clause of __call__ catches an exception, in clause order
ExceptClause(e) ==
  CASE e.kind = "HTTPStatusError" -> "HTTPStatusError"
    [] e.kind \in {"ConnectionError", "ConnectError", "TimeoutException"} -> "ConnectionError"
    [] e.kind = "ValueError" -> "ValueError"
    [] OTHER -> "Exception"

(***************************************************************************)
(* The except clauses of LoggerChatModel.__call__.  A handler yields the   *)
(* new retry_count, the sleep it performed (at most one) and the error it  *)
(* raises (NoError when the loop goes on).                                 *)
(***************************************************************************)
Err(t, c, n) == [type |-> t, category |-> c, attempts |-> n]

NoError == Err("none", "none", 0)

Verdict(rc, sl, err) == [retry_count |-> rc, slept |-> sl, error |-> err]

Slept(n, src, ms) == <<[attempt |-> n, src |-> src, ms |-> ms]>>

Min(a, b) == IF a < b THEN a ELSE b

Backoff_linear(rc) == Min(2 * rc, backoff_cap) * 1000

\* min(2 ** retry_count, 60) seconds
Backoff(rc) == Min(2 ^ rc, backoff_cap) * 1000

HTTPStatusBranch_retry4xx(status) ==
  IF status = 429 THEN "rate limit"
  ELSE IF status >= 400 THEN "server error"
  ELSE "client error"

\* if status_code == 429 / elif status_code >= 500 / else
HTTPStatusBranch(status) ==
  IF status = 429 THEN "rate limit"
  ELSE IF status >= 500 THEN "server error"
  ELSE "client error"

RateLimitWait_ms_first(e) ==
  IF Truthy(e.retry_after_ms)
    THEN [src |-> "retry-after-ms", parses |-> IsIntLiteral(e.retry_after_ms.text),
          ms |-> ParseInt(e.retry_after_ms.text)]
  ELSE IF Truthy(e.retry_after)
    THEN [src |-> "retry-after", parses |-> IsIntLiteral(e.retry_after.text),
          ms |-> ParseInt(e.retry_after.text) * 1000]
  ELSE [src |-> "default", parses |-> TRUE, ms |-> default_wait * 1000]

\* the wait chosen for a 429: int(retry_after), else int(retry_after_ms) / 1000.0,
\* else 30; parses is FALSE when int() raises ValueError
RateLimitWait(e) ==
  IF Truthy(e.retry_after)
    THEN [src |-> "retry-after", parses |-> IsIntLiteral(e.retry_after.text),
          ms |-> ParseInt(e.retry_after.text) * 1000]
  ELSE IF Truthy(e.retry_after_ms)
    THEN [src |-> "retry-after-ms", parses |-> IsIntLiteral(e.retry_after_ms.text),
          ms |-> ParseInt(e.retry_after_ms.text)]
  ELSE [src |-> "default", parses |-> TRUE, ms |-> default_wait * 1000]

\* if retry_count >= max_retries
Exhausted(rc) == rc >= max_retries

\* while retry_count < max_retries
WhileCondition(rc) == rc < max_retries

\* except httpx.HTTPStatusError; n is the number of this backend call.
\* int() of a non-integer text and time.sleep() of a negative value raise
\* ValueError out of the handler.
HandleHTTPStatusError(e, rc0, n) ==
  LET rc == rc0 + 1
      branch == HTTPStatusBranch(e.status)
      w == RateLimitWait(e)
  IN CASE branch = "rate limit" ->
            IF ~w.parses THEN Verdict(rc, <<>>, Err("ValueError", "int", 0))
            ELSE IF w.ms < 0 THEN Verdict(rc, <<>>, Err("ValueError", "sleep", 0))
            ELSE Verdict(rc, Slept(n, w.src, w.ms),
                         IF Exhausted(rc) THEN Err("ValueError", "rate limit", max_retries)
                         ELSE NoError)
       [] branch = "server error" ->
            Verdict(rc, Slept(n, "backoff", Backoff(rc)),
                    IF Exhausted(rc) THEN Err("ConnectionError", "server error", max_retries)
                    ELSE NoError)
       [] OTHER -> Verdict(rc, <<>>, Err("ValueError", "client error", 0))

\* except (ConnectionError, httpx.ConnectError, httpx.TimeoutException)
HandleConnectionError(e, rc0, n) ==
  LET rc == rc0 + 1
  IN Verdict(rc, Slept(n, "backoff", Backoff(rc)),
             IF Exhausted(rc) THEN Err("ConnectionError", "network", max_retries)
             ELSE NoError)

\* except ValueError: raise
HandleValueError(e, rc0, n) == Verdict(rc0, <<>>, Err("ValueError", "passthrough", 0))

\* except Exception
HandleException(e, rc0, n) ==
  LET rc == rc0 + 1
  IN IF Exhausted(rc) THEN Verdict(rc, <<>>, Err("ValueError", "unexpected", max_retries))
     ELSE Verdict(rc, Slept(n, "backoff", Backoff(rc)), NoError)

(***************************************************************************)
(* Strings are sequences of characters; a control character is written by  *)
(* its name ("LF", "CR", "TAB", "NUL", "VT", "FF").                        *)
(***************************************************************************)
LowerLetters == <<"a", "b", "c", "d", "e", "f", "g", "h", "i", "j", "k", "l", "m", "n", "o", "p", "q", "r", "s", "t", "u", "v", "w", "x", "y", "z">>

UpperLetters == <<"A", "B", "C", "D", "E", "F", "G", "H", "I", "J", "K", "L", "M", "N", "O", "P", "Q", "R", "S", "T", "U", "V", "W", "X", "Y", "Z">>

DigitChars == {"0", "1", "2", "3", "4", "5", "6", "7", "8", "9"}

Range(f) == {f[i] : i \in DOMAIN f}

Letters == Range(LowerLetters) \cup Range(UpperLetters)

\* the characters str.strip() removes
Whitespace == {" ", "TAB", "LF", "CR", "VT", "FF"}

\* str.lower() on one character
LowerChar(c) ==
  IF \E i \in 1..26 : UpperLetters[i] = c
    THEN LowerLetters[CHOOSE i \in 1..26 : UpperLetters[i] = c]
    ELSE c

\* str.lower()
Lower(t) == [i \in DOMAIN t |-> LowerChar(t[i])]

\* pat in t
Contains(t, pat) ==
  \E i \in 1..(Len(t) - Len(pat) + 1) : SubSeq(t, i, i + Len(pat) - 1) = pat

\* t.startswith(pat)
StartsWith(t, pat) == Len(pat) <= Len(t) /\ SubSeq(t, 1, Len(pat)) = pat

\* t.find(c) counted from 1; 0 when c does not occur
Find(t, c) ==
  IF \E i \in DOMAIN t : t[i] = c
    THEN CHOOSE i \in DOMAIN t : t[i] = c /\ \A j \in 1..(i - 1) : t[j] # c
    ELSE 0

RECURSIVE LStrip(_)
LStrip(t) == IF t # <<>> /\ t[1] \in Whitespace THEN LStrip(Tail(t)) ELSE t

RECURSIVE RStrip(_)
RStrip(t) ==
  IF t # <<>> /\ t[Len(t)] \in Whitespace THEN RStrip(SubSeq(t, 1, Len(t) - 1)) ELSE t

\* str.strip()
Strip(t) == RStrip(LStrip(t))

(***************************************************************************)
(* src/src/security_utils.py : SecurityValidator.validate_job_url          *)
(***************************************************************************)
\* urllib.parse scheme_chars
SchemeChars == Letters \cup DigitChars \cup {"+", "-", "."}

\* urlsplit: the scheme is what precedes the first ':' when it starts with a
\* letter and holds only scheme characters; it is lower-cased
HasScheme(u) ==
  LET i == Find(u, ":") IN
    /\ i > 1
    /\ u[1] \in Letters
    /\ \A k \in 1..(i - 1) : u[k] \in SchemeChars

AfterScheme(u) == IF HasScheme(u) THEN SubSeq(u, Find(u, ":") + 1, Len(u)) ELSE u

\* _splitnetloc: after '//' the netloc runs to the first of '/', '?', '#'
NetlocEnd(r) ==
  IF \E i \in 3..Len(r) : r[i] \in {"/", "?", "#"}
    THEN (CHOOSE i \in 3..Len(r) :
            r[i] \in {"/", "?", "#"} /\ \A j \in 3..(i - 1) : r[j] \notin {"/", "?", "#"}) - 1
    ELSE Len(r)

\* netloc.partition('[')[2].partition(']')[0]
BracketedHost(netloc) ==
  LET after == SubSeq(netloc, Find(netloc, "[") + 1, Len(netloc)) IN
    IF Find(after, "]") > 0 THEN SubSeq(after, 1, Find(after, "]") - 1) ELSE after

\* the texts ipaddress.ip_address reads as an IPv6 address, among those the
\* host pieces can put between brackets
IPv6Addresses == {<<":", ":", "1">>}

\* _check_bracketed_host(hostname)
BracketedHostOk(hostname) == hostname \in IPv6Addresses

\* urlparse(url): raises ValueError when the netloc holds one of '[' and ']'
\* without the other, or brackets around something that is no IPv6 address
urlparse(u) ==
  LET scheme == IF HasScheme(u) THEN Lower(SubSeq(u, 1, Find(u, ":") - 1)) ELSE <<>>
      r == AfterScheme(u)
      netloc == IF StartsWith(r, <<"/", "/">>) THEN SubSeq(r, 3, NetlocEnd(r)) ELSE <<>>
      has(c) == \E i \in DOMAIN netloc : netloc[i] = c
  IN [ok |-> /\ has("[") <=> has("]")
             /\ has("[") => BracketedHostOk(BracketedHost(netloc)),
      scheme |-> scheme, netloc |-> netloc]

\* ALLOWED_URL_SCHEMES = {'http', 'https'}
ALLOWED_URL_SCHEMES == {<<"h", "t", "t", "p">>, <<"h", "t", "t", "p", "s">>}

localhost_patterns ==
  <<<<"l", "o", "c", "a", "l", "h", "o", "s", "t">>,
    <<"1", "2", "7", ".", "0", ".", "0", ".", "1">>,
    <<"0", ".", "0", ".", "0", ".", "0">>,
    <<":", ":", "1">>,
    <<"1", "6", "9", ".", "2", "5", "4", ".">>,
    <<"1", "0", ".">>,
    <<"1", "9", "2", ".", "1", "6", "8", ".">>>>

NetlocForMatch_nolower(netloc) == netloc

\* hostname = parsed.netloc.lower()
NetlocForMatch(netloc) == Lower(netloc)

PatternMatches_prefix(pattern, hostname) == StartsWith(hostname, pattern)

\* if pattern in hostname
PatternMatches(pattern, hostname) == Contains(hostname, pattern)

validate_job_url_hostfirst(url) ==
  IF url = <<>> THEN "empty"
  ELSE LET parsed == urlparse(Strip(url)) IN
    IF ~parsed.ok THEN "format"
    ELSE IF parsed.netloc = <<>> THEN "host"
    ELSE IF parsed.scheme \notin ALLOWED_URL_SCHEMES THEN "scheme"
    ELSE IF \E i \in DOMAIN localhost_patterns :
              PatternMatches(localhost_patterns[i], NetlocForMatch(parsed.netloc))
      THEN "ssrf"
    ELSE "ok"

\* validate_job_url(url): "ok" when it returns True, else the ValueError raised:
\* "empty" (URL must be a non-empty string), "format" (Invalid URL format),
\* "scheme" (Invalid URL scheme), "host" (missing hostname),
\* "ssrf" (Internal/localhost URLs are not allowed)
validate_job_url(url) ==
  IF url = <<>> THEN "empty"
  ELSE LET parsed == urlparse(Strip(url)) IN
    IF ~parsed.ok THEN "format"
    ELSE IF parsed.scheme \notin ALLOWED_URL_SCHEMES THEN "scheme"
    ELSE IF parsed.netloc = <<>> THEN "host"
    ELSE IF \E i \in DOMAIN localhost_patterns :
              PatternMatches(localhost_patterns[i], NetlocForMatch(parsed.netloc))
      THEN "ssrf"
    ELSE "ok"

\* the URLs handed to the validator: a scheme part, up to MaxHostPieces host
\* pieces, a path, with or without surrounding whitespace
SchemeParts ==
  {<<"h", "t", "t", "p", ":", "/", "/">>,
   <<"h", "t", "t", "p", "s", ":", "/", "/">>,
   <<"H", "T", "T", "P", ":", "/", "/">>,
   <<"f", "t", "p", ":", "/", "/">>,
   <<"f", "i", "l", "e", ":", "/", "/">>,
   <<"j", "a", "v", "a", "s", "c", "r", "i", "p", "t", ":">>,
   <<":", "/", "/">>,
   <<"h", "t", "t", "p", ":">>,
   <<"h", "t", "p", ":", "/", "/">>,
   <<>>}

HostPieces ==
  {<<"l", "o", "c", "a", "l", "h", "o", "s", "t">>,
   <<"L", "O", "C", "A", "L", "H", "O", "S", "T">>,
   <<"1", "2", "7", ".", "0", ".", "0", ".", "1">>,
   <<"0", ".", "0", ".", "0", ".", "0">>,
   <<"[", ":", ":", "1", "]">>,
   <<"1", "6", "9", ".", "2", "5", "4", ".">>,
   <<"1", "0", ".">>,
   <<"1", "9", "2", ".", "1", "6", "8", ".">>,
   <<"1", "7", "2", ".", "1", "6", ".", "0", ".", "1">>,
   <<"1", "2", "7", ".", "0", ".", "0", ".", "2">>,
   <<"e", "x", "a", "m", "p", "l", "e", ".", "c", "o", "m">>,
   <<"j", "o", "b", "s">>,
   <<"1", "0", ".", "e", "x", "a", "m", "p", "l", "e", ".", "c", "o", "m">>,
   <<"n", "o", "t", "l", "o", "c", "a", "l", "h", "o", "s", "t", "1", "0", ".", "c", "o", "m">>,
   <<"u", "s", "e", "r", "@">>,
   <<"[">>}

RECURSIVE HostsOf(_)
HostsOf(n) ==
  IF n = 0 THEN {<<>>}
  ELSE HostsOf(n - 1) \cup {h \o q : h \in HostsOf(n - 1), q \in HostPieces}

PathParts == {<<>>, <<"/", "j", "o", "b">>}

Wrappings == {<<<<>>, <<>>>>, <<<<" ">>, <<"LF">>>>}

UrlInputs ==
  {w[1] \o sp \o h \o pp \o w[2] :
     w \in Wrappings, sp \in SchemeParts, h \in HostsOf(MaxHostPieces), pp \in PathParts}

NoUrlCheck == [url |-> <<>>, outcome |-> "idle"]

(***************************************************************************)
(* src/src/security_utils.py : SecurityValidator.validate_email            *)
(***************************************************************************)
\* [a-zA-Z0-9._%+-]
LocalChars == Letters \cup DigitChars \cup {".", "_", "%", "+", "-"}

\* [a-zA-Z0-9.-]
DomainChars == Letters \cup DigitChars \cup {".", "-"}

AllIn(t, cs) == \A i \in DOMAIN t : t[i] \in cs

\* EMAIL_REGEX.match(email): ^[a-zA-Z0-9._%+-]+@[a-zA-Z0-9.-]+\.[a-zA-Z]{2,}$
EMAIL_REGEX_match(t) ==
  \E i \in DOMAIN t :
    /\ t[i] = "@"
    /\ i > 1
    /\ AllIn(SubSeq(t, 1, i - 1), LocalChars)
    /\ \E j \in (i + 2)..(Len(t) - 2) :
         /\ t[j] = "."
         /\ AllIn(SubSeq(t, i + 1, j - 1), DomainChars)
         /\ AllIn(SubSeq(t, j + 1, Len(t)), Letters)

\* RFC 5321 max length
email_max_length == 320

email_dangerous_chars == {"|", ";", "&", "$", "BACKTICK", "LF", "CR"}

validate_email_charsfirst(email) ==
  IF email = <<>> THEN "empty"
  ELSE LET e == Strip(email) IN
    IF \E i \in DOMAIN e : e[i] \in email_dangerous_chars THEN "chars"
    ELSE IF ~EMAIL_REGEX_match(e) THEN "format"
    ELSE IF Len(e) > email_max_length THEN "long"
    ELSE "ok"

\* validate_email(email): "ok" when it returns True, else the ValueError raised:
\* "empty" (Email must be a non-empty string), "format" (Invalid email format),
\* "long" (Email address too long), "chars" (Email contains invalid characters)
validate_email(email) ==
  IF email = <<>> THEN "empty"
  ELSE LET e == Strip(email) IN
    IF ~EMAIL_REGEX_match(e) THEN "format"
    ELSE IF Len(e) > email_max_length THEN "long"
    ELSE IF \E i \in DOMAIN e : e[i] \in email_dangerous_chars THEN "chars"
    ELSE "ok"

\* a local part longer than the length limit
LongLocal == [i \in 1..(email_max_length + 1) |-> "a"]

EmailPieces ==
  {<<"u", "s", "e", "r", "@", "e", "x", "a", "m", "p", "l", "e", ".", "c", "o", "m">>,
   <<"u", "s", "e", "r">>,
   <<"@">>,
   <<"e", "x", "a", "m", "p", "l", "e", ".", "c", "o", "m">>,
   <<"x", ".", "c">>,
   <<"b", "c", "c", ":", "a", "@", "e", "v", "i", "l", ".", "c", "o", "m">>,
   <<"|">>,
   <<";">>,
   <<"&">>,
   <<"$">>,
   <<"BACKTICK">>,
   <<"LF">>,
   <<"CR">>,
   <<" ">>,
   LongLocal}

RECURSIVE EmailsOf(_)
EmailsOf(n) ==
  IF n = 0 THEN {<<>>}
  ELSE EmailsOf(n - 1) \cup {h \o q : h \in EmailsOf(n - 1), q \in EmailPieces}

EmailInputs == EmailsOf(MaxEmailPieces)

NoEmailCheck == [email |-> <<>>, outcome |-> "idle"]

(***************************************************************************)
(* src/src/email_sender.py : EmailSender._sanitize_email_field             *)
(***************************************************************************)
\* None, as distinct from every text
None == <<"None">>

field_dangerous_chars_noFF == {"LF", "CR", "NUL", "VT"}

\* dangerous_chars: newline, carriage return, NUL, vertical tab, form feed
field_dangerous_chars == {"LF", "CR", "NUL", "VT", "FF"}

\* for char in dangerous_chars: sanitized = sanitized.replace(char, ' ')
ReplaceDangerous(t) ==
  [i \in DOMAIN t |-> IF t[i] \in field_dangerous_chars THEN " " ELSE t[i]]

\* one sanitized.replace('  ', ' '): left to right, without overlap
RECURSIVE ReplaceDoubleSpace(_)
ReplaceDoubleSpace(t) ==
  IF Len(t) < 2 THEN t
  ELSE IF t[1] = " " /\ t[2] = " " THEN <<" ">> \o ReplaceDoubleSpace(SubSeq(t, 3, Len(t)))
  ELSE <<t[1]>> \o ReplaceDoubleSpace(Tail(t))

\* while '  ' in sanitized: sanitized = sanitized.replace('  ', ' ')
RECURSIVE CollapseSpaces(_)
CollapseSpaces(t) ==
  IF Contains(t, <<" ", " ">>) THEN CollapseSpaces(ReplaceDoubleSpace(t)) ELSE t

sanitize_email_field_collapse_first(text) ==
  IF text = None \/ text = <<>> THEN <<>>
  ELSE Strip(ReplaceDangerous(CollapseSpaces(text)))

\* _sanitize_email_field(text)
sanitize_email_field(text) ==
  IF text = None \/ text = <<>> THEN <<>>
  ELSE Strip(CollapseSpaces(ReplaceDangerous(text)))

FieldChars == {"a", " ", "TAB", "LF", "CR", "NUL", "VT", "FF"}

FieldTexts == UNION {[1..n -> FieldChars] : n \in 0..MaxFieldLen}

FieldInputs == FieldTexts \cup {None}

NoField == [text |-> <<>>, stage |-> "idle", once |-> <<>>, twice |-> <<>>]

(***************************************************************************)
(* src/src/email_sender.py : EmailSender                                   *)
(***************************************************************************)
\* the keys of the YAML configuration file
required_fields == <<"smtp_server", "smtp_port", "email", "sender_name">>

YamlKeys == Range(required_fields) \cup {"password"}

ConfigEmails == {<<"m", "e", "@", "x", ".", "s", "e">>, <<"m", "e", "@", "x", ".", "s", "e", "LF">>, <<"m", "e">>}

SenderNames == {<<"A", " ", "B">>, <<"A", "LF", "B">>}

NoFile == [exists |-> FALSE, keys |-> {}, email |-> <<>>, sender_name |-> <<>>, password |-> "none"]

\* the configuration files: any set of keys, with the values of the keys present
YamlFiles ==
  {NoFile} \cup
  {[exists |-> TRUE, keys |-> k,
    email |-> IF "email" \in k THEN e ELSE <<>>,
    sender_name |-> IF "sender_name" \in k THEN n ELSE <<>>,
    password |-> IF "password" \in k THEN "yaml_pw" ELSE "none"] :
     k \in SUBSET YamlKeys, e \in ConfigEmails, n \in SenderNames}

\* the environment variable JOBCRAFT_SMTP_PASSWORD: unset, empty or set
Environments ==
  {[set |-> FALSE, value |-> ""], [set |-> TRUE, value |-> ""], [set |-> TRUE, value |-> "env_pw"]}

\* SecurePasswordManager.get_smtp_password(): the value, or None when unset or empty
get_smtp_password(env) == IF env.set /\ env.value # "" THEN env.value ELSE "None"

NoConfig == [email |-> <<>>, sender_name |-> <<>>, password |-> "none"]

Loaded(cfg) == [ok |-> TRUE, error |-> [type |-> "none", kind |-> "none"], config |-> cfg]

LoadError(type, kind) == [ok |-> FALSE, error |-> [type |-> type, kind |-> kind], config |-> NoConfig]

\* the first required field the file lacks, 0 when it has them all
FirstMissing(yaml) ==
  IF \E i \in DOMAIN required_fields : required_fields[i] \notin yaml.keys
    THEN CHOOSE i \in DOMAIN required_fields :
           /\ required_fields[i] \notin yaml.keys
           /\ \A j \in 1..(i - 1) : required_fields[j] \in yaml.keys
    ELSE 0

load_email_config_yaml_password(yaml, env) ==
  IF ~yaml.exists THEN LoadError("FileNotFoundError", "file")
  ELSE IF FirstMissing(yaml) # 0 THEN LoadError("ValueError", "missing_field")
  ELSE IF "password" \notin yaml.keys /\ get_smtp_password(env) = "None"
    THEN LoadError("ValueError", "no_env_password")
  ELSE IF validate_email(yaml.email) # "ok" THEN LoadError("ValueError", "invalid_sender_email")
  ELSE Loaded([email |-> yaml.email, sender_name |-> yaml.sender_name,
               password |-> IF "password" \in yaml.keys THEN yaml.password
                            ELSE get_smtp_password(env)])

\* _load_email_config(config_path): the configuration, or the exception raised
load_email_config(yaml, env) ==
  IF ~yaml.exists THEN LoadError("FileNotFoundError", "file")
  ELSE IF FirstMissing(yaml) # 0 THEN LoadError("ValueError", "missing_field")
  ELSE IF "password" \in yaml.keys THEN LoadError("ValueError", "password_in_yaml")
  ELSE IF get_smtp_password(env) = "None" THEN LoadError("ValueError", "no_env_password")
  ELSE IF validate_email(yaml.email) # "ok" THEN LoadError("ValueError", "invalid_sender_email")
  ELSE Loaded([email |-> yaml.email, sender_name |-> yaml.sender_name,
               password |-> get_smtp_password(env)])

NoMsg == [From |-> <<>>, To |-> <<>>, Subject |-> <<>>, filenames |-> {}]

\* text.replace(" ", "_")
SpacesToUnderscores(t) == [i \in DOMAIN t |-> IF t[i] = " " THEN "_" ELSE t[i]]

\* safe_filename = self._sanitize_email_field(self.config["sender_name"]).replace(" ", "_")
safe_filename(cfg) == SpacesToUnderscores(sanitize_email_field(cfg.sender_name))

\* the message send_job_application builds: From, To, Subject and the file
\* names of the attachments whose path exists
BuildMessage(cfg, recipient_email, position_title, resume, cover) ==
  LET safe_sender_name == sanitize_email_field(cfg.sender_name)
      safe_position_title == sanitize_email_field(position_title)
  IN [From |-> safe_sender_name \o <<" ", "<">> \o cfg.email \o <<">">>,
      To |-> recipient_email,
      Subject |-> <<"A", "n", "s", "o_umlaut", "k", "a", "n", " ", "t", "i", "l", "l", " ">> \o safe_position_title
                    \o <<" ", "-", " ">> \o safe_sender_name,
      filenames |->
        (IF resume = "exists"
           THEN {<<"C", "V", "_">> \o safe_filename(cfg) \o <<".", "p", "d", "f">>} ELSE {})
        \cup
        (IF cover = "exists"
           THEN {<<"P", "e", "r", "s", "o", "n", "l", "i", "g", "t", "_", "b", "r", "e", "v", "_">> \o safe_filename(cfg) \o <<".", "p", "d", "f">>}
           ELSE {})]

Recipients ==
  {<<"h", "r", "@", "c", "o", ".", "s", "e">>,
   <<"h", "r", "@", "c", "o", ".", "s", "e", "LF">>,
   <<"CR", "h", "r", "@", "c", "o", ".", "s", "e">>,
   <<"h", "r", "@", "c", "o", ".", "s", "e", "LF", "B", "c", "c", ":", "a", "@", "b", ".", "s", "e">>,
   <<"h", "r">>,
   <<>>}

PositionTitles == {<<"D", "e", "v">>, <<"D", "e", "v", "CR", "LF", "B", "c", "c", ":", "a", "@", "b", ".", "s", "e">>, <<>>}

\* a path that does not exist, one that is read, one whose read fails
PathStates == {"missing", "exists", "unreadable"}

\* connect(): smtplib.SMTP(...) raises, starttls raises, login raises, or all succeed
ConnectOutcomes == {"smtp_raises", "starttls_raises", "login_raises", "connected"}

\* smtp_server.send_message(msg) returns or raises
SendOutcomes == {"sent", "send_raises"}

\* one send_job_application call: its arguments, the message it built, whether
\* it ran connect(), and the state of the SMTP object it called send_message on
NoCall == [recipient_email |-> <<>>, position_title |-> <<>>, result |-> "none",
           built |-> FALSE, handed |-> FALSE, msg |-> NoMsg,
           connects |-> FALSE, server |-> "None"]

\* one send_bulk_applications call: the applications, the ones handed to
\* send_job_application, the dictionary, and how the call ended
NoBulk == [called |-> FALSE, applications |-> <<>>, connected |-> FALSE,
           attempted |-> <<>>, results |-> <<>>, handed |-> 0, disconnects |-> 0,
           raised |-> FALSE]

NoSender ==
  [phase |-> "none", yaml |-> NoFile, env |-> [set |-> FALSE, value |-> ""],
   error |-> [type |-> "none", kind |-> "none"], config |-> NoConfig,
   smtp_server |-> "None", logins |-> {}, last |-> NoCall, bulk |-> NoBulk]

\* self.smtp_server: None, or an SMTP object that is open but not logged in,
\* logged in, or closed by quit()
SmtpStates == {"None", "open", "logged_in", "closed"}

\* the sender after connect() with outcome c: self.smtp_server is assigned
\* before starttls and login are tried
AfterConnect(m, c) ==
  IF c = "smtp_raises" THEN m
  ELSE [m EXCEPT !.smtp_server = IF c = "connected" THEN "logged_in" ELSE "open",
                 !.logins = IF c \in {"login_raises", "connected"}
                              THEN m.logins \cup {m.config.password} ELSE m.logins]

\* what send_message can do on the server object: a closed one only raises
SendOutcomesOn(server) == IF server = "closed" THEN {"send_raises"} ELSE SendOutcomes

\* disconnect(): quit() on the server object, which stays in self.smtp_server
disconnect(m) == [m EXCEPT !.smtp_server = IF @ = "None" THEN "None" ELSE "closed"]

\* the sender after send_job_application(r, company, t, resume, cover), where
\* connect() would end as c and send_message as o
send_job_application(m, r, t, resume, cover, c, o) ==
  LET rejected == [NoCall EXCEPT !.recipient_email = r, !.result = "raised"]
      msg == BuildMessage(m.config, r, t, resume, cover)
      built == [NoCall EXCEPT !.recipient_email = r, !.position_title = t,
                              !.built = TRUE, !.msg = msg, !.result = "False"]
      Send(s, connects) ==
        [s EXCEPT !.last = [built EXCEPT !.handed = TRUE, !.connects = connects,
                                         !.server = s.smtp_server,
                                         !.result = IF o = "sent" THEN "True" ELSE "False"]]
  IN  IF validate_email(r) # "ok" THEN [m EXCEPT !.last = rejected]
      ELSE IF "unreadable" \in {resume, cover} THEN [m EXCEPT !.last = built]
      ELSE IF m.smtp_server = "None"
        THEN IF c = "connected" THEN Send(AfterConnect(m, c), TRUE)
             ELSE [AfterConnect(m, c) EXCEPT !.last = [built EXCEPT !.connects = TRUE]]
      ELSE Send(m, FALSE)

\* the applications of a bulk call
Companies == {<<"C", "o">>}

BulkTitles == {<<"D", "e", "v">>, <<"O", "p", "s">>}

BulkRecipients == {<<"h", "r", "@", "c", "o", ".", "s", "e">>, <<"h", "r">>}

Applications ==
  [recipient_email : BulkRecipients, company_name : Companies, position_title : BulkTitles]

\* app_id = f"{app['company_name']}_{app['position_title']}"
app_id(app) == app.company_name \o <<"_">> \o app.position_title

\* results[app_id] = success on a dictionary kept as a sequence of
\* <<key, value>> pairs in insertion order
DictSet(d, k, v) ==
  IF \E i \in DOMAIN d : d[i][1] = k
    THEN [i \in DOMAIN d |-> IF d[i][1] = k THEN <<k, v>> ELSE d[i]]
  ELSE Append(d, <<k, v>>)

DictKeys(d) == {d[i][1] : i \in DOMAIN d}

RECURSIVE BulkLoop(_, _, _)
\* the for loop of send_bulk_applications from application i on; outs[i] is
\* what send_message does for application i.  An exception of
\* send_job_application leaves the loop.
BulkLoop(m, i, outs) ==
  IF i > Len(m.bulk.applications) THEN m
  ELSE LET app == m.bulk.applications[i]
           sent == send_job_application(m, app.recipient_email, app.position_title,
                                        "exists", "exists", "connected", outs[i])
           tried == [sent EXCEPT !.bulk.attempted = Append(@, i),
                                 !.bulk.handed = IF sent.last.handed THEN @ + 1 ELSE @]
       IN  IF sent.last.result = "raised"
             THEN [tried EXCEPT !.bulk.raised = TRUE]
           ELSE BulkLoop([tried EXCEPT !.bulk.results =
                                   DictSet(@, app_id(app), sent.last.result = "True")],
                         i + 1, outs)

\* the sender after send_bulk_applications(applications), where connect()
\* ends as c
send_bulk_applications(m, applications, c, outs) ==
  LET called == [AfterConnect(m, c) EXCEPT
                   !.bulk = [NoBulk EXCEPT !.called = TRUE, !.applications = applications,
                                           !.connected = c = "connected"]]
      looped == BulkLoop(called, 1, outs)
  IN  IF c # "connected" THEN called
      ELSE [disconnect(looped) EXCEPT !.bulk.disconnects = @ + 1]

\* the lists of applications, and of send_message outcomes, of the model
ApplicationLists ==
  UNION {[1 .. n -> Applications] : n \in 0 .. MaxApplications}

OutcomeLists(n) == [1 .. n -> SendOutcomes]

(***************************************************************************)
(* src/src/job_scrapers.py : the scrape_job methods, and the other places  *)
(* that load a job URL the user supplied.                                  *)
(***************************************************************************)
JobUrls ==
  {<<"h", "t", "t", "p", "s", ":", "/", "/", "t", "h", "e", "h", "u", "b", ".", "s", "e", "/", "j", "o", "b", "s", "/", "1">>,
   <<"h", "t", "t", "p", "s", ":", "/", "/", "w", "w", "w", ".", "l", "i", "n", "k", "e", "d", "i", "n", ".", "c", "o", "m", "/", "j", "o", "b", "s", "/", "v", "i", "e", "w", "/", "1">>,
   <<"h", "t", "t", "p", "s", ":", "/", "/", "a", "r", "b", "e", "t", "s", "f", "o", "r", "m", "e", "d", "l", "i", "n", "g", "e", "n", ".", "s", "e", "/", "1">>,
   <<"h", "t", "t", "p", ":", "/", "/", "l", "o", "c", "a", "l", "h", "o", "s", "t", "/", "j", "o", "b", "s">>,
   <<"h", "t", "t", "p", ":", "/", "/", "1", "2", "7", ".", "0", ".", "0", ".", "1", "/", "j", "o", "b", "s">>,
   <<"h", "t", "t", "p", ":", "/", "/", "1", "9", "2", ".", "1", "6", "8", ".", "1", ".", "1", "/", "j", "o", "b", "s">>,
   <<"h", "t", "t", "p", ":", "/", "/", "1", "0", ".", "0", ".", "0", ".", "1", "/", "j", "o", "b", "s">>,
   <<"h", "t", "t", "p", ":", "/", "/", "1", "7", "2", ".", "1", "6", ".", "0", ".", "1", "/", "j", "o", "b", "s">>,
   <<"f", "i", "l", "e", ":", "/", "/", "/", "e", "t", "c", "/", "p", "a", "s", "s", "w", "d">>,
   <<"j", "a", "v", "a", "s", "c", "r", "i", "p", "t", ":", "a", "l", "e", "r", "t", "(", "1", ")">>,
   <<"h", "t", "t", "p", "s", ":", "/", "/">>,
   <<"t", "h", "e", "h", "u", "b", ".", "s", "e", "/", "j", "o", "b", "s", "/", "1">>,
   <<>>}

\* something done with the URL: SecurityValidator.validate_job_url(url),
\* driver.get(url), requests.get(url) or link_to_job(url)
Did(op, url) == [op |-> op, url |-> url]

\* the operations that load the URL over the network
LoadOps == {"driver.get", "requests.get", "link_to_job"}

NoScrapeError == [type |-> "none", category |-> "none"]

ScrapeError(type, category) == [type |-> type, category |-> category]

\* what a call did, and how it ended: a value returned, or the exception raised
Scraped(events, raised) ==
  [events |-> events, returned |-> raised = NoScrapeError, error |-> raised]

\* what the browser makes of the page: driver.get raises WebDriverException,
\* wait.until raises TimeoutException, find_element raises
\* NoSuchElementException, or all elements are found
BrowserPages == {"webdriver_error", "timeout", "no_element", "found"}

\* what requests.get and the parsing make of the page: requests.Timeout,
\* another requests.RequestException, an AttributeError while parsing, or a
\* parsed page
HttpPages == {"timeout", "request_error", "attribute_error", "parsed"}

\* LinkedInScraper.scrape_job(job_url)
LinkedIn_scrape_job(url, page) ==
  LET v == validate_job_url(url) IN
    IF v # "ok"
      \* except (WebDriverException, ValueError): raise
      THEN Scraped(<<Did("validate", url)>>, ScrapeError("ValueError", v))
      ELSE Scraped(<<Did("validate", url), Did("driver.get", url)>>,
             CASE page = "webdriver_error" -> ScrapeError("WebDriverException", "webdriver")
               [] page = "timeout" -> ScrapeError("ValueError", "failed_to_load")
               [] page = "no_element" -> ScrapeError("ValueError", "page_structure")
               [] OTHER -> NoScrapeError)

\* the except clauses shared by TheHubScraper and ArbetsformedlingenScraper:
\* requests.Timeout, requests.RequestException, (AttributeError, ValueError)
HttpScraperHandler(raised) ==
  CASE raised = "Timeout" -> ScrapeError("ValueError", "failed_to_load")
    [] raised = "RequestException" -> ScrapeError("ValueError", "failed_to_fetch")
    [] raised \in {"AttributeError", "ValueError"} -> ScrapeError("ValueError", "page_structure")
    [] OTHER -> NoScrapeError

HttpFetched(page) ==
  CASE page = "timeout" -> HttpScraperHandler("Timeout")
    [] page = "request_error" -> HttpScraperHandler("RequestException")
    [] page = "attribute_error" -> HttpScraperHandler("AttributeError")
    [] OTHER -> NoScrapeError

TheHub_scrape_job_fetch_first(url, page) ==
  IF page \in {"timeout", "request_error"}
    THEN Scraped(<<Did("requests.get", url)>>, HttpFetched(page))
  ELSE IF validate_job_url(url) # "ok"
    THEN Scraped(<<Did("requests.get", url), Did("validate", url)>>,
                 HttpScraperHandler("ValueError"))
  ELSE Scraped(<<Did("requests.get", url), Did("validate", url)>>, HttpFetched(page))

\* TheHubScraper.scrape_job(job_url)
TheHub_scrape_job(url, page) ==
  IF validate_job_url(url) # "ok"
    THEN Scraped(<<Did("validate", url)>>, HttpScraperHandler("ValueError"))
    ELSE Scraped(<<Did("validate", url), Did("requests.get", url)>>, HttpFetched(page))

\* ArbetsformedlingenScraper.scrape_job(job_url)
Arbetsformedlingen_scrape_job(url, page) ==
  IF validate_job_url(url) # "ok"
    THEN Scraped(<<Did("validate", url)>>, HttpScraperHandler("ValueError"))
    ELSE Scraped(<<Did("validate", url), Did("requests.get", url)>>, HttpFetched(page))

\* SharedJobScraper.scrape_job_from_url(job_url): init_browser(), then
\* driver.get(job_url); every exception is logged and raised again
scrape_job_from_url(url, page) ==
  Scraped(<<Did("driver.get", url)>>,
          IF page = "webdriver_error" THEN ScrapeError("WebDriverException", "webdriver")
          ELSE IF page = "no_element" THEN ScrapeError("NoSuchElementException", "page_structure")
          ELSE NoScrapeError)

\* main.create_cover_letter: the URL the user typed is validated when it is
\* not empty, a rejected URL ends the function, otherwise link_to_job(job_url)
create_cover_letter(url) ==
  IF url # <<>> /\ validate_job_url(url) # "ok"
    THEN Scraped(<<Did("validate", url)>>, NoScrapeError)
  ELSE IF url # <<>>
    THEN Scraped(<<Did("validate", url), Did("link_to_job", url)>>, NoScrapeError)
  ELSE Scraped(<<Did("link_to_job", url)>>, NoScrapeError)

\* main.create_cover_letter_and_send_email: the URL the user typed goes to
\* link_to_job(job_url) as it is
create_cover_letter_and_send_email(url) ==
  Scraped(<<Did("link_to_job", url)>>, NoScrapeError)

Scrapers == {"LinkedInScraper", "TheHubScraper", "ArbetsformedlingenScraper"}

NoScrape ==
  [entry |-> "none", url |-> <<>>, events |-> <<>>, returned |-> FALSE, error |-> NoScrapeError]

\* the state after the call `entry` on the URL, with what the call did
AfterScrape(sc, entry, done) ==
  [sc EXCEPT !.entry = entry, !.events = done.events, !.returned = done.returned,
             !.error = done.error]

(***************************************************************************)
(* BrowserPool (src/src/utils/browser_pool.py) and the document            *)
(* generation that uses the pooled driver.  BrowserPool objects and Chrome *)
(* drivers are numbered in the order they are made; 0 stands for None.     *)
(***************************************************************************)
Callers == 1 .. NumCallers

\* what init_browser() and driver.quit() can do
InitOutcomes == {"started", "raises"}

QuitOutcomes == {"closed", "raises"}

BodyOutcomes == {"returns", "raises"}

IdleCaller == [pc |-> "idle", self |-> 0, driver |-> 0, returned |-> 0]

NoPoolCall == [op |-> "none", returned |-> 0, raised |-> FALSE, body |-> "none"]

\* the class attributes as the class statement leaves them, no strategy
\* initialised, nobody inside a call
NoPool ==
  [_instance |-> 0, _driver |-> <<>>, chrome |-> <<>>, facade_driver |-> 0,
   callers |-> [t \in Callers |-> IdleCaller], last |-> NoPoolCall]

\* a call that came back with `returned`, or left by the exception `raised`
PoolCall(p, returned, raised) == [pool |-> p, returned |-> returned, raised |-> raised]

\* BrowserPool.get_instance() run without interruption: the singleton is made
\* on first use
get_instance(p) ==
  IF p._instance = 0
    THEN [p EXCEPT !._driver = Append(@, 0), !._instance = Len(p._driver) + 1]
  ELSE p

\* the driver has had quit() called on it
Quit(p, d) == [p EXCEPT !.chrome[d] = "quit"]

\* BrowserPool.get_driver() run without interruption
get_driver(p, self, init) ==
  IF p._driver[self] = 0
    THEN IF init = "started"
           THEN PoolCall([p EXCEPT !.chrome = Append(@, "live"),
                                   !._driver[self] = Len(p.chrome) + 1],
                         Len(p.chrome) + 1, FALSE)
         ELSE PoolCall([p EXCEPT !.chrome = Append(@, "failed")], 0, TRUE)
  ELSE PoolCall(p, p._driver[self], FALSE)

\* BrowserPool.cleanup(): the reference is dropped only when quit() returns
cleanup(p, self, quit) ==
  IF p._driver[self] # 0
    THEN IF quit = "closed"
           THEN [Quit(p, p._driver[self]) EXCEPT !._driver[self] = 0]
         ELSE Quit(p, p._driver[self])
  ELSE p

\* BrowserPool.reset()
reset(p, self, quit) == [cleanup(p, self, quit) EXCEPT !._driver[self] = 0]

\* BrowserPool.__exit__: logs, closes nothing, returns False
BrowserPool_exit(p, self) == p

\* `with BrowserPool.get_instance() as driver: body`
with_BrowserPool(p, init, body) ==
  LET q == get_instance(p)
      entered == get_driver(q, q._instance, init)
  IN  IF entered.raised THEN entered
      ELSE PoolCall(BrowserPool_exit(entered.pool, q._instance), entered.returned,
                    body = "raises")

\* BrowserSession.__exit__
BrowserSession_exit(p, self, auto_cleanup, quit) ==
  IF auto_cleanup THEN cleanup(p, self, quit) ELSE p

\* `with BrowserSession(auto_cleanup) as driver: body`
with_BrowserSession(p, auto_cleanup, init, body, quit) ==
  LET q == get_instance(p)
      entered == get_driver(q, q._instance, init)
  IN  IF entered.raised THEN entered
      ELSE PoolCall(BrowserSession_exit(entered.pool, q._instance, auto_cleanup, quit),
                    entered.returned, body = "raises")

\* get_browser()
get_browser(p, init) == LET q == get_instance(p) IN get_driver(q, q._instance, init)

\* cleanup_browser()
cleanup_browser(p, quit) == LET q == get_instance(p) IN cleanup(q, q._instance, quit)

\* reset_browser()
reset_browser(p, quit) == LET q == get_instance(p) IN reset(q, q._instance, quit)

\* ModernDesign1Strategy.initialize_components: the facade is handed the
\* pooled driver
initialize_components(p, init) ==
  LET got == get_browser(p, init)
  IN  IF got.raised THEN got
      ELSE PoolCall([got.pool EXCEPT !.facade_driver = got.returned], got.returned, FALSE)

\* ModernDesign1Facade.create_resume_pdf_job_tailored: HTML_to_PDF on the
\* facade's driver, which is left open
create_resume_pdf_job_tailored(p, body) ==
  PoolCall(p, p.facade_driver, body = "raises")

\* ModernDesign1Facade.create_cover_letter: HTML_to_PDF on the facade's
\* driver, then driver.quit() in the finally block
facade_create_cover_letter(p, body) ==
  PoolCall(Quit(p, p.facade_driver), p.facade_driver, body = "raises")

\* the state after the call `op`
AfterPoolCall(op, done, body) ==
  [done.pool EXCEPT !.last = [op |-> op, returned |-> done.returned,
                              raised |-> done.raised, body |-> body]]

(***************************************************************************)
(* ModelManager (src/src/libs/resume_and_cover_builder/model_manager.py).  *)
(***************************************************************************)
ModelIds == <<"URSPRUNGLIGA", "MODERN_DESIGN_1", "MODERN_DESIGN_2">>

\* _get_original_styles(): one name per CSS file of resume_style that starts
\* with a comment; none when there is no such file
OriginalStyles == {<<>>, <<"Style A", "Style B">>}

\* _get_moderndesign1_templates(): the names found in moderndesign1, or the
\* default when none is found
ModernDesign1Templates == {<<"Modern Design 1 - Default">>, <<"Design 1 A", "Design 1 B">>}

\* _get_moderndesign2_templates()
ModernDesign2Templates == {<<"Modern Design 2 - Creative Bold">>}

\* what inquirer.prompt does: an answer is chosen (its position in the list
\* of choices), None is returned, or the user interrupts
Interrupted == {[kind |-> "None", at |-> 0], [kind |-> "KeyboardInterrupt", at |-> 0]}

PromptOutcomes(choices) == {[kind |-> "answer", at |-> i] : i \in DOMAIN choices} \cup Interrupted

NoManagerCall ==
  [op |-> "none", returned |-> "None", raised |-> FALSE, model |-> "None", template |-> "None"]

\* the ModelManager after __init__ with the templates found on disk
NewManager(original, design1, design2) ==
  [templates |-> [m \in Range(ModelIds) |->
                    IF m = "URSPRUNGLIGA" THEN original
                    ELSE IF m = "MODERN_DESIGN_1" THEN design1 ELSE design2],
   selected_model |-> "None", selected_template |-> "None", last |-> NoManagerCall]

NoManager == NewManager(<<>>, <<"Modern Design 1 - Default">>, <<"Modern Design 2 - Creative Bold">>)

ManagerReturned(g, op, value) ==
  [g EXCEPT !.last = [NoManagerCall EXCEPT !.op = op, !.returned = value]]

\* select_model_interactive(): an answer sets selected_model and nothing else
select_model_interactive(g, answer) ==
  IF answer \in Interrupted THEN ManagerReturned(g, "select_model_interactive", "None")
  ELSE ManagerReturned([g EXCEPT !.selected_model = ModelIds[answer.at]],
                       "select_model_interactive", ModelIds[answer.at])

\* select_template_for_model(model_id)
select_template_for_model(g, model_id, answer) ==
  IF model_id \notin DOMAIN g.templates
    THEN ManagerReturned(g, "select_template_for_model", "None")
  ELSE LET templates == g.templates[model_id] IN
    IF templates = <<>> THEN ManagerReturned(g, "select_template_for_model", "None")
    ELSE IF Len(templates) = 1
      THEN ManagerReturned([g EXCEPT !.selected_template = templates[1]],
                           "select_template_for_model", templates[1])
    ELSE IF answer \in Interrupted
      THEN ManagerReturned(g, "select_template_for_model", "None")
    ELSE ManagerReturned([g EXCEPT !.selected_template = templates[answer.at]],
                         "select_template_for_model", templates[answer.at])

\* ModelAwareResumeSystem.interactive_model_and_template_selection()
interactive_model_and_template_selection(g, model_answer, template_answer) ==
  LET step1 == select_model_interactive(g, model_answer)
      step2 == select_template_for_model(step1, step1.last.returned, template_answer)
  IN  IF step1.last.returned = "None"
        THEN ManagerReturned(step1, "interactive_model_and_template_selection", "None")
      ELSE IF step2.last.returned = "None"
        THEN ManagerReturned(step2, "interactive_model_and_template_selection", "None")
      ELSE [step2 EXCEPT !.last = [NoManagerCall EXCEPT
                                     !.op = "interactive_model_and_template_selection",
                                     !.returned = step2.last.returned,
                                     !.model = step1.last.returned,
                                     !.template = step2.last.returned]]

\* what the AI generator of the selected model does
GenerateOutcomes == {"html", "raises"}

\* create_cv_with_selected_model(api_key, resume_object, job_description): the
\* model and the template the generation ran with are recorded
create_cv_with_selected_model(g, generated) ==
  IF g.selected_model = "None" \/ g.selected_template = "None"
    THEN [g EXCEPT !.last = [NoManagerCall EXCEPT !.op = "create_cv_with_selected_model",
                                                  !.raised = TRUE]]
  ELSE [g EXCEPT !.last = [op |-> "create_cv_with_selected_model",
                           returned |-> IF generated = "html" THEN "html" ELSE "None",
                           raised |-> generated = "raises",
                           model |-> g.selected_model,
                           template |-> g.selected_template]]

(***************************************************************************)
(* JobCraftAI (src/src/automated_job_applier.py): one run of               *)
(* run_automated_application_process.                                      *)
(***************************************************************************)
\* the job listings a search can bring: a URL, and the contact address
\* get_contact_info finds in the description, if any
JobListings == [url : {"job/1", "job/2"}, contact : {"None", "hr@co.se"}]

FoundLists == UNION {[1 .. n -> JobListings] : n \in 0 .. MaxFound}

RECURSIVE unique_jobs(_, _)
\* search_jobs: the listings with a URL not seen before, in the order found
unique_jobs(all_jobs, seen) ==
  IF all_jobs = <<>> THEN <<>>
  ELSE IF Head(all_jobs).url \in seen THEN unique_jobs(Tail(all_jobs), seen)
  ELSE <<Head(all_jobs)>> \o unique_jobs(Tail(all_jobs), seen \cup {Head(all_jobs).url})

\* jobs[:max_applications]
Slice(jobs, n) == SubSeq(jobs, 1, IF n < Len(jobs) THEN n ELSE Len(jobs))

NoStats ==
  [jobs_found |-> 0, applications_sent |-> 0, applications_failed |-> 0,
   emails_sent |-> 0, emails_failed |-> 0]

\* a JobCraftAI object before run_automated_application_process is called
NewApplier(max_applications, auto_apply, configured) ==
  [pc |-> "new", max_applications |-> max_applications, auto_apply |-> auto_apply,
   email_configured |-> configured, driver |-> "None", email_sender |-> FALSE,
   jobs |-> <<>>, processed |-> 0, stats |-> NoStats, cleanups |-> 0]

NoApplier == NewApplier(0, FALSE, FALSE)

\* generate_documents_for_job(job)
DocumentOutcomes == {"generated", "raises"}

\* email_sender.send_job_application(...)
ApplicationOutcomes == {"True", "False", "raises"}

\* self.stats after apply_to_job(job)
apply_to_job(stats, job, documents, email_sender, sent) ==
  IF documents = "raises" THEN [stats EXCEPT !.applications_failed = @ + 1]
  ELSE IF job.contact = "None" THEN stats
  ELSE IF email_sender
    THEN IF sent = "True"
           THEN [stats EXCEPT !.emails_sent = @ + 1, !.applications_sent = @ + 1]
         ELSE IF sent = "False"
           THEN [stats EXCEPT !.emails_failed = @ + 1, !.applications_failed = @ + 1]
         ELSE [stats EXCEPT !.applications_failed = @ + 1]
  ELSE [stats EXCEPT !.applications_sent = @ + 1]

\* self.stats after the manual branch of the loop
prepare_documents(stats, documents) ==
  IF documents = "generated" THEN [stats EXCEPT !.applications_sent = @ + 1]
  ELSE [stats EXCEPT !.applications_failed = @ + 1]

\* cleanup(): the browser is quit and the mail connection closed
applier_cleanup(a) ==
  [a EXCEPT !.driver = IF @ = "None" THEN "None" ELSE "quit", !.cleanups = @ + 1]

\* the other components at rest
UrlIdle == url_check = NoUrlCheck

EmailIdle == email_check = NoEmailCheck

FieldIdle == field = NoField

MailIdle == mail = NoSender

ScrapeIdle == scrape = NoScrape

PoolIdle == pool = NoPool

ManagerIdle == manager = NoManager

ApplierIdle == applier = NoApplier

OthersIdle == UrlIdle /\ EmailIdle /\ FieldIdle /\ MailIdle /\ ScrapeIdle /\ PoolIdle /\ ManagerIdle /\ ApplierIdle

(***************************************************************************)
(* State machine of one LoggerChatModel object.                            *)
(***************************************************************************)
Terminal == {"Succeeded", "FailedPermanently"}

\* LoggerChatModel.__init__ : self.llm = llm
Init ==
  /\ llm \in Backends
  /\ pc = "Idle"
  /\ retry_count = 0
  /\ calls = 0
  /\ sleeps = <<>>
  /\ trace = <<>>
  /\ raw = NoOutcome
  /\ exc = NoOutcome
  /\ result = "none"
  /\ error = NoError
  /\ logged = {}
  /\ OthersIdle

\* entry of __call__: max_retries = 3; retry_count = 0
Call ==
  /\ pc \in {"Idle"} \cup Terminal
  /\ pc' = "Attempting"
  /\ retry_count' = 0
  /\ calls' = 0
  /\ sleeps' = <<>>
  /\ trace' = <<>>
  /\ raw' = NoOutcome
  /\ exc' = NoOutcome
  /\ result' = "none"
  /\ error' = NoError
  /\ logged' = EntryLogs
  /\ UNCHANGED llm
  /\ UNCHANGED notInvoker

\* the raise after the while loop
FallThrough ==
  /\ pc' = "FailedPermanently"
  /\ error' = Err("ValueError", "fallthrough", max_retries)
  /\ UNCHANGED <<llm, retry_count, calls, sleeps, trace, raw, exc, result, logged>>
  /\ UNCHANGED notInvoker

\* one iteration whose try block raised e, handled with verdict v
Caught(o, e, v) ==
  /\ calls' = calls + 1
  /\ raw' = o
  /\ exc' = e
  /\ trace' = Append(trace, e.kind)
  /\ retry_count' = v.retry_count
  /\ sleeps' = sleeps \o v.slept
  /\ error' = v.error
  /\ pc' = IF v.error = NoError THEN "Attempting" ELSE "FailedPermanently"
  /\ logged' = logged \cup TryLogs(llm, o, e)
  /\ UNCHANGED <<llm, result>>
  /\ UNCHANGED notInvoker

\* the try block runs to 'return reply'
ReturnReply ==
  /\ pc = "Attempting"
  /\ IF ~WhileCondition(retry_count) THEN FallThrough
     ELSE \E t \in TryOutcomes(llm) :
              /\ t.e.kind = "ok"
              /\ calls' = calls + 1
              /\ raw' = t.raw
              /\ result' = t.e.reply
              /\ pc' = "Succeeded"
              /\ logged' = logged \cup TryLogs(llm, t.raw, t.e)
              /\ UNCHANGED <<llm, retry_count, sleeps, trace, exc, error>>
              /\ UNCHANGED notInvoker

ExceptHTTPStatusError ==
  /\ pc = "Attempting"
  /\ IF ~WhileCondition(retry_count) THEN FallThrough
     ELSE \E t \in TryOutcomes(llm) :
              /\ ExceptClause(t.e) = "HTTPStatusError"
              /\ Caught(t.raw, t.e, HandleHTTPStatusError(t.e, retry_count, calls + 1))

ExceptConnectionError ==
  /\ pc = "Attempting"
  /\ IF ~WhileCondition(retry_count) THEN FallThrough
     ELSE \E t \in TryOutcomes(llm) :
              /\ ExceptClause(t.e) = "ConnectionError"
              /\ Caught(t.raw, t.e, HandleConnectionError(t.e, retry_count, calls + 1))

ExceptValueError ==
  /\ pc = "Attempting"
  /\ IF ~WhileCondition(retry_count) THEN FallThrough
     ELSE \E t \in TryOutcomes(llm) :
              /\ ExceptClause(t.e) = "ValueError"
              /\ Caught(t.raw, t.e, HandleValueError(t.e, retry_count, calls + 1))

ExceptException ==
  /\ pc = "Attempting"
  /\ IF ~WhileCondition(retry_count) THEN FallThrough
     ELSE \E t \in TryOutcomes(llm) :
              /\ t.e.kind # "ok"
              /\ ExceptClause(t.e) = "Exception"
              /\ Caught(t.raw, t.e, HandleException(t.e, retry_count, calls + 1))

Iterate ==
  \/ ReturnReply
  \/ ExceptHTTPStatusError
  \/ ExceptConnectionError
  \/ ExceptValueError
  \/ ExceptException

Next == Call \/ Iterate

Spec == Init /\ [][Next]_vars

\* a started invocation runs on: the backend call is blocking with a timeout
\* and every sleep is finite
FairSpec == Spec /\ WF_vars(Iterate)

(***************************************************************************)
(* Vocabulary of the properties.                                           *)
(***************************************************************************)
\* the backend call of the latest attempt returned without raising
BackendReturned == raw.kind # "none" /\ llm_invoke(llm, raw).kind = "ok"

\* number of the latest failed attempt, counted from 1
LastFailedAttempt == Len(trace)

IsRateLimit(e) == e.kind = "HTTPStatusError" /\ e.status = 429

IsServerError(e) == e.kind = "HTTPStatusError" /\ e.status >= 500

IsClientError(e) == e.kind = "HTTPStatusError" /\ e.status \in (400..499) \ {429}

IsNetworkError(e) == e.kind \in {"ConnectionError", "ConnectError", "TimeoutException"}

IsUnexpected(e) == e.kind \in {"RuntimeError", "KeyError", "OSError"}

FailureCategory(e) ==
  CASE IsRateLimit(e) -> "rate limit"
    [] IsServerError(e) -> "server error"
    [] IsNetworkError(e) -> "network"
    [] IsUnexpected(e) -> "unexpected"
    [] OTHER -> "not retryable"

SleepsOfAttempt(n) == {i \in DOMAIN sleeps : sleeps[i].attempt = n}

RECURSIVE TotalMs(_)
TotalMs(sl) == IF sl = <<>> THEN 0 ELSE sl[1].ms + TotalMs(Tail(sl))

\* C1: whenever a backend call returns without raising, the invocation ends in
\* Succeeded with that response returned (and so the backend is not called
\* again), whatever parse_llmresult and log_request do afterwards.
C1_ReturnedCallSucceeds ==
  BackendReturned => (pc = "Succeeded" /\ result = raw.reply)

\* C2: in the GPTAnswerer stack (LoggerChatModel over AIAdapter over a provider
\* model) a rate limit (429) or a request timeout of the SDK is retried until
\* the 3-attempt budget is used up; a failure is surfaced only on exhaustion.
C2_StackRetriesTransient ==
  (/\ llm \in Providers
   /\ pc = "FailedPermanently"
   /\ (IsRateLimit(raw) \/ raw.kind = "TimeoutException"))
  => calls = 3

\* C3: an HTTP client error (4xx other than 429) makes the invoker fail
\* permanently at once: no sleep in that attempt, no retry; when it is the
\* first attempt exactly one backend call was made and nothing was slept.
C3_ClientErrorFailsImmediately ==
  IsClientError(exc) =>
    /\ pc = "FailedPermanently"
    /\ error.type = "ValueError"
    /\ error.category = "client error"
    /\ calls = LastFailedAttempt
    /\ SleepsOfAttempt(calls) = {}
    /\ (LastFailedAttempt = 1 => calls = 1 /\ sleeps = <<>>)

C3_Witness ==
  /\ IsClientError(exc)
  /\ exc.status = 403
  /\ calls = 1
  /\ pc = "FailedPermanently"

\* C4: when every backend call raises a connection error the invoker calls the
\* backend exactly 3 times, sleeps exactly twice (2 s, then 4 s) and raises a
\* permanent-failure error.
C4_ConnectionErrorsSleepTwice ==
  (/\ pc = "FailedPermanently"
   /\ trace # <<>>
   /\ \A i \in DOMAIN trace : trace[i] \in {"ConnectError", "ConnectionError"})
  => /\ calls = 3
     /\ [i \in DOMAIN sleeps |-> sleeps[i].ms] = <<2000, 4000>>
     /\ error.type = "ConnectionError"

\* C5: the invoker sleeps only while the attempt counter is below max attempts:
\* no sleep ever belongs to the final (3rd) attempt.
C5_NoSleepOnFinalAttempt ==
  \A i \in DOMAIN sleeps : sleeps[i].attempt < 3

C6_WithinBudget ==
  /\ calls <= 3
  /\ retry_count <= 3
  /\ (pc = "Succeeded" => result \in Replies /\ error = NoError)
  /\ (pc = "FailedPermanently" => error # NoError)

C6_TerminalIsFinal == pc \in Terminal => (pc' = "Attempting" /\ calls' = 0)

\* C6: every invocation ends in Succeeded or FailedPermanently after at most 3
\* backend calls; the attempt counter never exceeds 3; a terminal state is left
\* only by a new invocation, never by another backend call.
C6_TerminatesWithinBudget ==
  /\ []C6_WithinBudget
  /\ [][C6_TerminalIsFinal]_vars
  /\ (pc = "Attempting" ~> pc \in Terminal)

C6_Witness ==
  /\ pc = "FailedPermanently"
  /\ calls = 3
  /\ retry_count = 3

\* C7: on a 429 the delay slept is the 'retry-after' value in seconds if that
\* header is given, else the 'retry-after-ms' value in milliseconds if given,
\* else 30 s; with 'retry-after: 2' and a successful second call the invoker
\* sleeps 2 s and returns the success value after exactly two attempts.
\* (A header is given when headers.get yields a non-empty text.)
HeaderGiven(h) == h.present /\ Len(h.text) > 0

ClaimedRateLimitMs(e) ==
  IF HeaderGiven(e.retry_after) THEN 1000 * ParseInt(e.retry_after.text)
  ELSE IF HeaderGiven(e.retry_after_ms) THEN ParseInt(e.retry_after_ms.text)
  ELSE 30000

UsedHeaderText(e) ==
  IF HeaderGiven(e.retry_after) THEN e.retry_after.text ELSE e.retry_after_ms.text

WellFormedWait(e) ==
  (HeaderGiven(e.retry_after) \/ HeaderGiven(e.retry_after_ms)) =>
    (IsIntLiteral(UsedHeaderText(e)) /\ ParseInt(UsedHeaderText(e)) >= 0)

C7_RateLimitDelay ==
  /\ IsRateLimit(exc) =>
       /\ \A i \in SleepsOfAttempt(LastFailedAttempt) :
            sleeps[i].ms = ClaimedRateLimitMs(exc)
       /\ WellFormedWait(exc) => Cardinality(SleepsOfAttempt(LastFailedAttempt)) = 1
  /\ (/\ pc = "Succeeded"
      /\ trace = <<"HTTPStatusError">>
      /\ IsRateLimit(exc)
      /\ exc.retry_after = [present |-> TRUE, text |-> <<"2">>])
     => /\ calls = 2
        /\ [i \in DOMAIN sleeps |-> sleeps[i].ms] = <<2000>>
        /\ result = raw.reply
        /\ result \in Replies

C7_Witness ==
  /\ pc = "Succeeded"
  /\ calls = 2
  /\ IsRateLimit(exc)
  /\ exc.retry_after = [present |-> TRUE, text |-> <<"2">>]
  /\ Len(sleeps) = 1
  /\ sleeps[1].ms = 2000

\* C8: for a server error, a network error or an unexpected exception on
\* attempt n the delay chosen is min(2^n, 60) seconds, never above 60 s.
C8_ExponentialBackoff ==
  FailureCategory(exc) \in {"server error", "network", "unexpected"} =>
    \A i \in SleepsOfAttempt(LastFailedAttempt) :
      /\ sleeps[i].ms = 1000 * (IF 2 ^ LastFailedAttempt < 60 THEN 2 ^ LastFailedAttempt ELSE 60)
      /\ sleeps[i].ms <= 60000

C8_Witness ==
  /\ exc.kind = "RuntimeError"
  /\ LastFailedAttempt = 2
  /\ Len(sleeps) = 2
  /\ sleeps[2].ms = 4000

\* C9 as stated: for any failures and any response headers the backoff sleeps
\* of one invocation total at most 3 x 60 = 180 seconds.
C9_TotalSleepAtMost180 == TotalMs(sleeps) <= 180000

\* C9 amended: the backoff sleeps of one invocation total at most 180 seconds
\* provided no 429 response supplied a retry-after / retry-after-ms delay above
\* 60 seconds (a server-supplied delay is slept in full, uncapped).
C9_TotalSleepBounded ==
  (\A i \in DOMAIN sleeps :
     sleeps[i].src \in {"retry-after", "retry-after-ms"} => sleeps[i].ms <= 60000)
  => TotalMs(sleeps) <= 180000

C9_Witness ==
  /\ pc = "FailedPermanently"
  /\ Len(sleeps) = 3
  /\ \E i \in DOMAIN sleeps : sleeps[i].src = "retry-after"
  /\ \E i \in DOMAIN sleeps : sleeps[i].src = "default"
  /\ TotalMs(sleeps) > 60000
  /\ TotalMs(sleeps) <= 180000

\* C10: when the attempt budget is exhausted the invoker raises one error that
\* names the failure category (rate limit, server error, network, unexpected)
\* and the number of attempts; a failed invocation never returns a value.
C10_ExhaustionErrorNamesCategory ==
  /\ pc = "FailedPermanently" => result = "none"
  /\ (/\ pc = "FailedPermanently"
      /\ LastFailedAttempt = 3
      /\ FailureCategory(exc) # "not retryable")
     => /\ error.category = FailureCategory(exc)
        /\ error.attempts = 3

\* C11: every log write of an invocation that carries prompt or reply content
\* went through sanitize_for_logging first; no sink gets the raw content.
C11_LogWritesSanitized ==
  \A w \in logged : w.carries \in {"prompt", "reply"} => w.sanitized

(***************************************************************************)
(* The URL validator applied to one URL.                                   *)
(***************************************************************************)
InvokerIdle ==
  /\ llm = "Transport"
  /\ pc = "Idle"
  /\ retry_count = 0
  /\ calls = 0
  /\ sleeps = <<>>
  /\ trace = <<>>
  /\ raw = NoOutcome
  /\ exc = NoOutcome
  /\ result = "none"
  /\ error = NoError
  /\ logged = {}

InitUrl ==
  /\ InvokerIdle /\ EmailIdle /\ FieldIdle /\ MailIdle /\ ScrapeIdle /\ PoolIdle /\ ManagerIdle /\ ApplierIdle
  /\ url_check \in {[url |-> u, outcome |-> "pending"] : u \in UrlInputs}

\* SecurityValidator.validate_job_url(url)
ValidateJobUrl ==
  /\ url_check.outcome = "pending"
  /\ url_check' = [url_check EXCEPT !.outcome = validate_job_url(url_check.url)]
  /\ UNCHANGED <<invokerVars, email_check, field, mail, scrape, pool, manager, applier>>

NextUrl == ValidateJobUrl

SpecUrl == InitUrl /\ [][NextUrl]_vars

(***************************************************************************)
(* The e-mail validator applied to one address.                            *)
(***************************************************************************)
InitEmail ==
  /\ InvokerIdle /\ UrlIdle /\ FieldIdle /\ MailIdle /\ ScrapeIdle /\ PoolIdle /\ ManagerIdle /\ ApplierIdle
  /\ email_check \in {[email |-> e, outcome |-> "pending"] : e \in EmailInputs}

\* SecurityValidator.validate_email(email)
ValidateEmail ==
  /\ email_check.outcome = "pending"
  /\ email_check' = [email_check EXCEPT !.outcome = validate_email(email_check.email)]
  /\ UNCHANGED <<invokerVars, url_check, field, mail, scrape, pool, manager, applier>>

NextEmail == ValidateEmail

SpecEmail == InitEmail /\ [][NextEmail]_vars

(***************************************************************************)
(* The header field sanitizer applied to a text, and to its own result.    *)
(***************************************************************************)
InitField ==
  /\ InvokerIdle /\ UrlIdle /\ EmailIdle /\ MailIdle /\ ScrapeIdle /\ PoolIdle /\ ManagerIdle /\ ApplierIdle
  /\ field \in {[NoField EXCEPT !.text = t, !.stage = "pending"] : t \in FieldInputs}

\* sanitized = self._sanitize_email_field(text)
SanitizeField ==
  /\ field.stage = "pending"
  /\ field' = [field EXCEPT !.stage = "once", !.once = sanitize_email_field(field.text)]
  /\ UNCHANGED <<invokerVars, url_check, email_check, mail, scrape, pool, manager, applier>>

\* self._sanitize_email_field(sanitized)
SanitizeAgain ==
  /\ field.stage = "once"
  /\ field' = [field EXCEPT !.stage = "twice", !.twice = sanitize_email_field(field.once)]
  /\ UNCHANGED <<invokerVars, url_check, email_check, mail, scrape, pool, manager, applier>>

NextField == SanitizeField \/ SanitizeAgain

SpecField == InitField /\ [][NextField]_vars

(***************************************************************************)
(* One EmailSender: construction from a configuration file and the         *)
(* environment, then connect, send_job_application and disconnect calls.   *)
(***************************************************************************)
InitSend ==
  /\ InvokerIdle /\ UrlIdle /\ EmailIdle /\ FieldIdle /\ ScrapeIdle /\ PoolIdle /\ ManagerIdle /\ ApplierIdle
  /\ mail \in {[NoSender EXCEPT !.yaml = y, !.env = e] : y \in YamlFiles, e \in Environments}

\* EmailSender(email_config_path)
Construct ==
  /\ mail.phase = "none"
  /\ LET loaded == load_email_config(mail.yaml, mail.env) IN
       mail' = [mail EXCEPT !.phase = IF loaded.ok THEN "ready" ELSE "load_failed",
                            !.error = loaded.error,
                            !.config = loaded.config]
  /\ UNCHANGED <<invokerVars, url_check, email_check, field, scrape, pool, manager, applier>>

\* connect()
Connect ==
  /\ mail.phase = "ready"
  /\ \E c \in ConnectOutcomes : mail' = AfterConnect(mail, c)
  /\ UNCHANGED <<invokerVars, url_check, email_check, field, scrape, pool, manager, applier>>

\* disconnect()
Disconnect ==
  /\ mail.phase = "ready"
  /\ mail' = disconnect(mail)
  /\ UNCHANGED <<invokerVars, url_check, email_check, field, scrape, pool, manager, applier>>

\* send_job_application(recipient_email, company_name, position_title,
\*                      resume_path, cover_letter_path)
SendJobApplication ==
  /\ mail.phase = "ready"
  /\ \E r \in Recipients :
       IF validate_email(r) # "ok"
         THEN mail' = send_job_application(mail, r, <<>>, "exists", "exists", "connected", "sent")
         ELSE \E t \in PositionTitles, resume \in PathStates, cover \in PathStates :
             IF "unreadable" \in {resume, cover}
               THEN mail' = send_job_application(mail, r, t, resume, cover, "connected", "sent")
             ELSE IF mail.smtp_server = "None"
               THEN \E c \in ConnectOutcomes :
                      IF c = "connected"
                        THEN \E o \in SendOutcomes :
                               mail' = send_job_application(mail, r, t, resume, cover, c, o)
                        ELSE mail' = send_job_application(mail, r, t, resume, cover, c, "sent")
             ELSE \E o \in SendOutcomesOn(mail.smtp_server) :
                    mail' = send_job_application(mail, r, t, resume, cover, "connected", o)
  /\ UNCHANGED <<invokerVars, url_check, email_check, field, scrape, pool, manager, applier>>

NextSend == Construct \/ Connect \/ Disconnect \/ SendJobApplication

SpecSend == InitSend /\ [][NextSend]_vars

(***************************************************************************)
(* One EmailSender with a configuration that loads, used for bulk sending. *)
(***************************************************************************)
InitBulk ==
  /\ InvokerIdle /\ UrlIdle /\ EmailIdle /\ FieldIdle /\ ScrapeIdle /\ PoolIdle /\ ManagerIdle /\ ApplierIdle
  /\ mail \in {[NoSender EXCEPT !.yaml = y, !.env = e] :
                 y \in {f \in YamlFiles : /\ f.exists /\ f.keys = Range(required_fields)
                                          /\ f.email = <<"m", "e", "@", "x", ".", "s", "e">>
                                          /\ f.sender_name = <<"A", " ", "B">>},
                 e \in {v \in Environments : get_smtp_password(v) # "None"}}

\* send_bulk_applications(applications)
SendBulkApplications ==
  /\ mail.phase = "ready"
  /\ \E applications \in ApplicationLists, c \in ConnectOutcomes :
       IF c = "connected"
         THEN \E outs \in OutcomeLists(Len(applications)) :
                mail' = send_bulk_applications(mail, applications, c, outs)
         ELSE mail' = send_bulk_applications(mail, applications, c, <<>>)
  /\ UNCHANGED <<invokerVars, url_check, email_check, field, scrape, pool, manager, applier>>

NextBulk == Construct \/ Connect \/ Disconnect \/ SendBulkApplications

SpecBulk == InitBulk /\ [][NextBulk]_vars

(***************************************************************************)
(* One job URL handed to one of the places that load it.                   *)
(***************************************************************************)
InitScrape ==
  /\ InvokerIdle /\ UrlIdle /\ EmailIdle /\ FieldIdle /\ MailIdle /\ PoolIdle /\ ManagerIdle /\ ApplierIdle
  /\ scrape \in {[NoScrape EXCEPT !.url = u] : u \in JobUrls}

notScrape == <<invokerVars, url_check, email_check, field, mail, pool, manager, applier>>

\* LinkedInScraper(driver).scrape_job(job_url)
ScrapeLinkedIn ==
  /\ scrape.entry = "none"
  /\ \E page \in BrowserPages :
       scrape' = AfterScrape(scrape, "LinkedInScraper", LinkedIn_scrape_job(scrape.url, page))
  /\ UNCHANGED notScrape

\* TheHubScraper().scrape_job(job_url)
ScrapeTheHub ==
  /\ scrape.entry = "none"
  /\ \E page \in HttpPages :
       scrape' = AfterScrape(scrape, "TheHubScraper", TheHub_scrape_job(scrape.url, page))
  /\ UNCHANGED notScrape

\* ArbetsformedlingenScraper().scrape_job(job_url)
ScrapeArbetsformedlingen ==
  /\ scrape.entry = "none"
  /\ \E page \in HttpPages :
       scrape' = AfterScrape(scrape, "ArbetsformedlingenScraper",
                             Arbetsformedlingen_scrape_job(scrape.url, page))
  /\ UNCHANGED notScrape

\* SharedJobScraper(api_key).scrape_job_from_url(job_url)
ScrapeJobFromUrl ==
  /\ scrape.entry = "none"
  /\ \E page \in BrowserPages \ {"timeout"} :
       scrape' = AfterScrape(scrape, "SharedJobScraper", scrape_job_from_url(scrape.url, page))
  /\ UNCHANGED notScrape

\* main.create_cover_letter(parameters, llm_api_key)
CreateCoverLetter ==
  /\ scrape.entry = "none"
  /\ scrape' = AfterScrape(scrape, "create_cover_letter", create_cover_letter(scrape.url))
  /\ UNCHANGED notScrape

\* main.create_cover_letter_and_send_email(parameters, llm_api_key)
CreateCoverLetterAndSendEmail ==
  /\ scrape.entry = "none"
  /\ scrape' = AfterScrape(scrape, "create_cover_letter_and_send_email",
                           create_cover_letter_and_send_email(scrape.url))
  /\ UNCHANGED notScrape

NextScrape ==
  \/ ScrapeLinkedIn \/ ScrapeTheHub \/ ScrapeArbetsformedlingen
  \/ ScrapeJobFromUrl \/ CreateCoverLetter \/ CreateCoverLetterAndSendEmail

SpecScrape == InitScrape /\ [][NextScrape]_vars

(***************************************************************************)
(* The browser pool used by one caller at a time.                          *)
(***************************************************************************)
InitPool ==
  /\ InvokerIdle /\ UrlIdle /\ EmailIdle /\ FieldIdle /\ MailIdle /\ ScrapeIdle /\ ManagerIdle /\ ApplierIdle
  /\ pool = NoPool

notPool == <<invokerVars, url_check, email_check, field, mail, scrape, manager, applier>>

\* init_browser() can be asked for another Chrome
CanStart(p) == Len(p.chrome) < MaxBrowsers

\* get_browser()
GetBrowser ==
  /\ CanStart(pool)
  /\ \E init \in InitOutcomes :
       pool' = AfterPoolCall("get_browser", get_browser(pool, init), "none")
  /\ UNCHANGED notPool

\* cleanup_browser()
CleanupBrowser ==
  /\ \E quit \in QuitOutcomes :
       pool' = AfterPoolCall("cleanup_browser",
                             PoolCall(cleanup_browser(pool, quit), 0, FALSE), "none")
  /\ UNCHANGED notPool

\* reset_browser()
ResetBrowser ==
  /\ \E quit \in QuitOutcomes :
       pool' = AfterPoolCall("reset_browser",
                             PoolCall(reset_browser(pool, quit), 0, FALSE), "none")
  /\ UNCHANGED notPool

\* with BrowserPool.get_instance() as driver: ...
WithBrowserPool ==
  /\ CanStart(pool)
  /\ \E init \in InitOutcomes, body \in BodyOutcomes :
       pool' = AfterPoolCall("with BrowserPool", with_BrowserPool(pool, init, body),
                             IF with_BrowserPool(pool, init, body).returned = 0
                               THEN "none" ELSE body)
  /\ UNCHANGED notPool

\* with BrowserSession(auto_cleanup) as driver: ...
WithBrowserSession ==
  /\ CanStart(pool)
  /\ \E auto_cleanup \in BOOLEAN, init \in InitOutcomes, body \in BodyOutcomes,
        quit \in QuitOutcomes :
       pool' = AfterPoolCall("with BrowserSession",
                 with_BrowserSession(pool, auto_cleanup, init, body, quit),
                 IF with_BrowserSession(pool, auto_cleanup, init, body, quit).returned = 0
                   THEN "none" ELSE body)
  /\ UNCHANGED notPool

\* strategy.initialize_components(selected_template)
InitializeComponents ==
  /\ CanStart(pool)
  /\ \E init \in InitOutcomes :
       pool' = AfterPoolCall("initialize_components", initialize_components(pool, init),
                             "none")
  /\ UNCHANGED notPool

\* strategy.generate_resume_tailored(job_url)
GenerateResumeTailored ==
  /\ pool.facade_driver # 0
  /\ \E body \in BodyOutcomes :
       pool' = AfterPoolCall("generate_resume_tailored",
                             create_resume_pdf_job_tailored(pool, body), body)
  /\ UNCHANGED notPool

\* strategy.generate_cover_letter(job_url)
GenerateCoverLetter ==
  /\ pool.facade_driver # 0
  /\ \E body \in BodyOutcomes :
       pool' = AfterPoolCall("generate_cover_letter",
                             facade_create_cover_letter(pool, body), body)
  /\ UNCHANGED notPool

NextPool ==
  \/ GetBrowser \/ CleanupBrowser \/ ResetBrowser
  \/ WithBrowserPool \/ WithBrowserSession
  \/ InitializeComponents \/ GenerateResumeTailored \/ GenerateCoverLetter

SpecPool == InitPool /\ [][NextPool]_vars

(***************************************************************************)
(* get_browser() called from several threads: each step is one read or     *)
(* write of the attributes the threads share, named by its source line.    *)
(***************************************************************************)
At(t, line) == pool.callers[t].pc = line

Goto(p, t, line) == [p EXCEPT !.callers[t].pc = line]

\* a thread calls get_browser()
CallGetBrowser(t) ==
  /\ At(t, "idle")
  /\ pool' = [pool EXCEPT !.callers[t] = [IdleCaller EXCEPT !.pc = "56"]]
  /\ UNCHANGED notPool

\* get_instance, line 56: if cls._instance is None
GetInstanceCheck(t) ==
  /\ At(t, "56")
  /\ pool' = Goto(pool, t, IF pool._instance = 0 THEN "43" ELSE "58")
  /\ UNCHANGED notPool

\* __new__, line 43: if cls._instance is None
NewCheck(t) ==
  /\ At(t, "43")
  /\ pool' = Goto(pool, t, IF pool._instance = 0 THEN "44" ELSE "46")
  /\ UNCHANGED notPool

\* __new__, line 44: cls._instance = super().__new__(cls)
NewCreate(t) ==
  /\ At(t, "44")
  /\ pool' = Goto([pool EXCEPT !._driver = Append(@, 0),
                               !._instance = Len(pool._driver) + 1], t, "46")
  /\ UNCHANGED notPool

\* __new__, line 46: return cls._instance
NewReturn(t) ==
  /\ At(t, "46")
  /\ pool' = Goto([pool EXCEPT !.callers[t].self = pool._instance], t, "57")
  /\ UNCHANGED notPool

\* get_instance, line 57: cls._instance = BrowserPool()
GetInstanceAssign(t) ==
  /\ At(t, "57")
  /\ pool' = Goto([pool EXCEPT !._instance = pool.callers[t].self], t, "58")
  /\ UNCHANGED notPool

\* get_instance, line 58: return cls._instance
GetInstanceReturn(t) ==
  /\ At(t, "58")
  /\ pool' = Goto([pool EXCEPT !.callers[t].self = pool._instance], t, "68")
  /\ UNCHANGED notPool

\* get_driver, line 68: if self._driver is None
GetDriverCheck(t) ==
  /\ At(t, "68")
  /\ pool' = Goto(pool, t, IF pool._driver[pool.callers[t].self] = 0 THEN "71" ELSE "77")
  /\ UNCHANGED notPool

\* get_driver, line 71: init_browser() is called
InitBrowser(t) ==
  /\ At(t, "71")
  /\ CanStart(pool)
  /\ \E init \in InitOutcomes :
       pool' = IF init = "started"
                 THEN Goto([pool EXCEPT !.chrome = Append(@, "live"),
                                        !.callers[t].driver = Len(pool.chrome) + 1],
                           t, "71=")
               ELSE Goto([pool EXCEPT !.chrome = Append(@, "failed")], t, "idle")
  /\ UNCHANGED notPool

\* get_driver, line 71: self._driver = the new driver
GetDriverAssign(t) ==
  /\ At(t, "71=")
  /\ pool' = Goto([pool EXCEPT !._driver[pool.callers[t].self] = pool.callers[t].driver],
                  t, "77")
  /\ UNCHANGED notPool

\* get_driver, line 77: return self._driver
GetDriverReturn(t) ==
  /\ At(t, "77")
  /\ pool' = Goto([pool EXCEPT !.callers[t].returned = pool._driver[pool.callers[t].self]],
                  t, "idle")
  /\ UNCHANGED notPool

NextPoolThreads ==
  \E t \in Callers :
    \/ CallGetBrowser(t) \/ GetInstanceCheck(t) \/ NewCheck(t) \/ NewCreate(t)
    \/ NewReturn(t) \/ GetInstanceAssign(t) \/ GetInstanceReturn(t)
    \/ GetDriverCheck(t) \/ InitBrowser(t) \/ GetDriverAssign(t) \/ GetDriverReturn(t)

SpecPoolThreads == InitPool /\ [][NextPoolThreads]_vars

(***************************************************************************)
(* One ModelManager and the calls that select a model and a template.      *)
(***************************************************************************)
InitManager ==
  /\ InvokerIdle /\ UrlIdle /\ EmailIdle /\ FieldIdle /\ MailIdle /\ ScrapeIdle /\ PoolIdle /\ ApplierIdle
  /\ manager \in {NewManager(o, d1, d2) : o \in OriginalStyles, d1 \in ModernDesign1Templates,
                                          d2 \in ModernDesign2Templates}

notManager == <<invokerVars, url_check, email_check, field, mail, scrape, pool, applier>>

\* model_manager.select_model_interactive()
SelectModelInteractive ==
  /\ \E answer \in PromptOutcomes(ModelIds) :
       manager' = select_model_interactive(manager, answer)
  /\ UNCHANGED notManager

\* model_manager.select_template_for_model(model_id)
SelectTemplateForModel ==
  /\ \E model_id \in Range(ModelIds) \cup {"UNKNOWN"} :
       \E answer \in (IF model_id \in DOMAIN manager.templates
                        THEN PromptOutcomes(manager.templates[model_id])
                      ELSE Interrupted) :
         manager' = select_template_for_model(manager, model_id, answer)
  /\ UNCHANGED notManager

\* model_system.interactive_model_and_template_selection()
InteractiveModelAndTemplateSelection ==
  /\ \E model_answer \in PromptOutcomes(ModelIds) :
       \E template_answer \in (IF model_answer \in Interrupted THEN Interrupted
                               ELSE PromptOutcomes(manager.templates[ModelIds[model_answer.at]])) :
         manager' = interactive_model_and_template_selection(manager, model_answer,
                                                             template_answer)
  /\ UNCHANGED notManager

\* model_manager.create_cv_with_selected_model(api_key, resume_object, job_description)
CreateCvWithSelectedModel ==
  /\ \E generated \in GenerateOutcomes :
       manager' = create_cv_with_selected_model(manager, generated)
  /\ UNCHANGED notManager

NextManager ==
  \/ SelectModelInteractive \/ SelectTemplateForModel
  \/ InteractiveModelAndTemplateSelection \/ CreateCvWithSelectedModel

SpecManager == InitManager /\ [][NextManager]_vars

(***************************************************************************)
(* run_automated_application_process(max_applications), step by step.      *)
(***************************************************************************)
InitApplier ==
  /\ InvokerIdle /\ UrlIdle /\ EmailIdle /\ FieldIdle /\ MailIdle /\ ScrapeIdle /\ PoolIdle
  /\ ManagerIdle
  /\ applier \in {NewApplier(n, auto, configured) :
                    n \in 0 .. MaxFound, auto \in BOOLEAN, configured \in BOOLEAN}

notApplier ==
  <<invokerVars, url_check, email_check, field, mail, scrape, pool, manager>>

\* the exception leaves the try block: the finally block runs cleanup()
ApplierRaised(a) == [applier_cleanup(a) EXCEPT !.pc = "raised"]

\* return self.stats: the finally block runs cleanup()
ApplierReturned(a) == [applier_cleanup(a) EXCEPT !.pc = "returned"]

\* self.initialize_components()
InitializeApplier ==
  /\ applier.pc = "new"
  /\ \E init \in {"browser_raises", "email_sender_raises", "initialized"} :
       applier' =
         IF init = "browser_raises" THEN ApplierRaised(applier)
         ELSE IF init = "email_sender_raises"
           THEN IF applier.email_configured
                  THEN ApplierRaised([applier EXCEPT !.driver = "live"])
                ELSE [applier EXCEPT !.pc = "initialized", !.driver = "live"]
         ELSE [applier EXCEPT !.pc = "initialized", !.driver = "live",
                              !.email_sender = applier.email_configured]
  /\ UNCHANGED notApplier

\* jobs = self.search_jobs(), and the return when no job was found
SearchJobs ==
  /\ applier.pc = "initialized"
  /\ \E all_jobs \in FoundLists :
       LET jobs == unique_jobs(all_jobs, {})
           searched == [applier EXCEPT !.jobs = Slice(jobs, applier.max_applications),
                                       !.stats.jobs_found = Len(jobs)]
       IN  applier' = IF jobs = <<>> THEN ApplierReturned(searched)
                      ELSE [searched EXCEPT !.pc = "applying"]
  /\ UNCHANGED notApplier

\* the job the loop is at
AtJob == applier.pc = "applying" /\ applier.processed < Len(applier.jobs)

\* one round of the loop with auto_apply: self.apply_to_job(job)
ApplyToJob ==
  /\ AtJob /\ applier.auto_apply
  /\ \E documents \in DocumentOutcomes, sent \in ApplicationOutcomes :
       applier' = [applier EXCEPT
                     !.processed = @ + 1,
                     !.stats = apply_to_job(@, applier.jobs[applier.processed + 1], documents,
                                            applier.email_sender, sent)]
  /\ UNCHANGED notApplier

\* one round of the loop without auto_apply: self.generate_documents_for_job(job)
PrepareDocuments ==
  /\ AtJob /\ ~applier.auto_apply
  /\ \E documents \in DocumentOutcomes :
       applier' = [applier EXCEPT !.processed = @ + 1,
                                  !.stats = prepare_documents(@, documents)]
  /\ UNCHANGED notApplier

\* the loop is over: return self.stats
ReturnStats ==
  /\ applier.pc = "applying" /\ applier.processed = Len(applier.jobs)
  /\ applier' = ApplierReturned(applier)
  /\ UNCHANGED notApplier

NextApplier ==
  \/ InitializeApplier \/ SearchJobs \/ ApplyToJob \/ PrepareDocuments \/ ReturnStats

SpecApplier == InitApplier /\ [][NextApplier]_vars

(***************************************************************************)
(* Claims about the URL validator.                                         *)
(***************************************************************************)
UrlDone == url_check.outcome \notin {"idle", "pending"}

\* what urlparse makes of the URL under validation
ParsedUrl == urlparse(Strip(url_check.url))

\* the URL is a non-empty string that urlparse accepts
UrlParses == url_check.url # <<>> /\ ParsedUrl.ok

HttpUrl == UrlParses /\ ParsedUrl.scheme \in {<<"h", "t", "t", "p">>, <<"h", "t", "t", "p", "s">>}

LastIndexOf(t, c) ==
  IF \E i \in DOMAIN t : t[i] = c
    THEN CHOOSE i \in DOMAIN t : t[i] = c /\ \A j \in (i + 1)..Len(t) : t[j] # c
    ELSE 0

\* the host name of a netloc: without userinfo, port and IPv6 brackets, in lower case
Hostname(netloc) ==
  LET h == SubSeq(netloc, LastIndexOf(netloc, "@") + 1, Len(netloc)) IN
    Lower(IF h # <<>> /\ h[1] = "[" /\ Find(h, "]") > 0 THEN SubSeq(h, 2, Find(h, "]") - 1)
          ELSE IF Find(h, ":") > 0 THEN SubSeq(h, 1, Find(h, ":") - 1)
          ELSE h)

UrlHost == Hostname(ParsedUrl.netloc)

InternalPrefixes ==
  {<<"l", "o", "c", "a", "l", "h", "o", "s", "t">>,
   <<"1", "2", "7", ".", "0", ".", "0", ".", "1">>,
   <<"0", ".", "0", ".", "0", ".", "0">>,
   <<":", ":", "1">>,
   <<"1", "6", "9", ".", "2", "5", "4", ".">>,
   <<"1", "0", ".">>,
   <<"1", "9", "2", ".", "1", "6", "8", ".">>}

HostHasInternalPrefix == \E q \in InternalPrefixes : StartsWith(UrlHost, q)

\* C12: an http/https URL whose host name equals or starts with localhost,
\* 127.0.0.1, 0.0.0.0, ::1, 169.254., 10. or 192.168. is rejected with the
\* SSRF error.
C12_InternalHostRejected ==
  (UrlDone /\ HttpUrl /\ HostHasInternalPrefix) => url_check.outcome = "ssrf"

C12_Witness ==
  /\ UrlDone /\ HttpUrl
  /\ StartsWith(UrlHost, <<"l", "o", "c", "a", "l", "h", "o", "s", "t">>)
  /\ StartsWith(ParsedUrl.netloc, <<"L", "O", "C", "A", "L", "H", "O", "S", "T">>)
  /\ url_check.outcome = "ssrf"

\* loopback (127/8, localhost, ::1), link-local (169.254/16) and RFC 1918
\* (10/8, 172.16/12, 192.168/16) hosts, as far as the host pieces spell them
LoopbackHost ==
  \/ UrlHost \in {<<"l", "o", "c", "a", "l", "h", "o", "s", "t">>, <<":", ":", "1">>}
  \/ StartsWith(UrlHost, <<"1", "2", "7", ".">>)

LinkLocalHost == StartsWith(UrlHost, <<"1", "6", "9", ".", "2", "5", "4", ".">>)

PrivateHost ==
  \/ StartsWith(UrlHost, <<"1", "0", ".">>) /\ \A i \in DOMAIN UrlHost : UrlHost[i] \in DigitChars \cup {"."}
  \/ StartsWith(UrlHost, <<"1", "9", "2", ".", "1", "6", "8", ".">>)
  \/ StartsWith(UrlHost, <<"1", "7", "2", ".", "1", "6", ".">>)

\* C13: every URL validate_job_url accepts has scheme http or https, a
\* non-empty host, and a host that is not loopback, link-local or RFC 1918
\* private (10/8, 172.16/12, 192.168/16).
C13_AcceptedUrlIsPublic ==
  url_check.outcome = "ok" =>
    /\ HttpUrl
    /\ ParsedUrl.netloc # <<>>
    /\ ~LoopbackHost /\ ~LinkLocalHost /\ ~PrivateHost

\* C14 as stated: matching is on host name prefixes, so an http/https URL whose
\* host merely contains a pattern in a non-prefix position is accepted.
C14_NonPrefixPatternAccepted ==
  (UrlDone /\ HttpUrl /\ ParsedUrl.netloc # <<>> /\ ~HostHasInternalPrefix)
    => url_check.outcome = "ok"

PatternAnywhere ==
  \E q \in InternalPrefixes : Contains(Lower(ParsedUrl.netloc), q)

\* C14 amended: matching is by substring of the lower-cased netloc: an
\* http/https URL with a pattern at any position of its netloc is rejected
\* with the SSRF error, and exactly the http/https URLs with a non-empty
\* netloc holding no pattern are accepted.
C14_SubstringMatch ==
  UrlDone =>
    /\ (HttpUrl /\ PatternAnywhere) => url_check.outcome = "ssrf"
    /\ url_check.outcome = "ok" <=>
         (HttpUrl /\ ParsedUrl.netloc # <<>> /\ ~PatternAnywhere)

C14_Witness ==
  /\ UrlDone /\ HttpUrl
  /\ UrlHost = <<"j", "o", "b", "s", "1", "0", ".", "e", "x", "a", "m", "p", "l", "e", ".", "c", "o", "m">>
  /\ ~HostHasInternalPrefix
  /\ url_check.outcome = "ssrf"

\* C15: a URL that urlparse reads and whose scheme is not http or https
\* (javascript:, file:, ftp:, none, misspelled) raises the invalid-scheme
\* error, also when its host is missing or internal.
C15_SchemeCheckedFirst ==
  (UrlDone /\ UrlParses /\ ~HttpUrl) => url_check.outcome = "scheme"

C15_Witness ==
  /\ UrlDone /\ UrlParses /\ ~HttpUrl
  /\ ParsedUrl.netloc = <<>>
  /\ ParsedUrl.scheme = <<"j", "a", "v", "a", "s", "c", "r", "i", "p", "t">>
  /\ url_check.outcome = "scheme"

(***************************************************************************)
(* Claims about the e-mail validator and the header field sanitizer.       *)
(***************************************************************************)
EmailDone == email_check.outcome \notin {"idle", "pending"}

InjectionChars == {"|", ";", "&", "$", "BACKTICK", "LF", "CR"}

HasInjectionChar(t) == \E i \in DOMAIN t : t[i] \in InjectionChars

\* C16: an address holding any of | ; & $ backtick newline or carriage return, at any
\* position, fails validation with the injection-character error; it neither
\* passes nor fails with another kind of error.
C16_InjectionCharsRejected ==
  (EmailDone /\ HasInjectionChar(email_check.email)) => email_check.outcome = "chars"

FieldDone == field.stage \in {"once", "twice"}

HeaderBreakers == {"LF", "CR", "NUL", "VT", "FF"}

\* C17: the sanitizer returns a text with no newline, carriage return, NUL,
\* vertical tab or form feed, without
\* two spaces in a row and without whitespace at either end; the empty text
\* and None give the empty text.
C17_SanitizedFieldSafe ==
  FieldDone =>
    /\ \A i \in DOMAIN field.once : field.once[i] \notin HeaderBreakers
    /\ \A i \in 1..(Len(field.once) - 1) : ~(field.once[i] = " " /\ field.once[i + 1] = " ")
    /\ field.once # <<>> =>
         field.once[1] \notin Whitespace /\ field.once[Len(field.once)] \notin Whitespace
    /\ field.text \in {<<>>, None} => field.once = <<>>

C17_Witness ==
  /\ FieldDone
  /\ field.text = <<"a", "FF", "LF", "a">>
  /\ field.once = <<"a", " ", "a">>

\* C18: sanitizing is idempotent: sanitizing a sanitized text returns it unchanged.
C18_SanitizeIdempotent ==
  field.stage = "twice" => field.twice = field.once

C18_Witness ==
  /\ field.stage = "twice"
  /\ field.text = <<"a", "LF", " ", "a">>
  /\ field.once = <<"a", " ", "a">>
  /\ field.twice = field.once

(***************************************************************************)
(* Claims about the e-mail sender.                                         *)
(***************************************************************************)
NoLineBreak(t) == \A i \in DOMAIN t : t[i] \notin {"LF", "CR"}

\* C19: the message handed to send_message has no newline and no carriage
\* return in From, To, Subject or an attachment file name, whatever the
\* recipient, position title and sender name; a call with an invalid
\* recipient raises before a message is built or sent.
C19_NoHeaderInjection ==
  /\ mail.last.handed =>
       /\ NoLineBreak(mail.last.msg.From)
       /\ NoLineBreak(mail.last.msg.To)
       /\ NoLineBreak(mail.last.msg.Subject)
       /\ \A f \in mail.last.msg.filenames : NoLineBreak(f)
  /\ (mail.last.result # "none" /\ validate_email(mail.last.recipient_email) # "ok") =>
       mail.last.result = "raised" /\ ~mail.last.built /\ ~mail.last.handed

C27_SendOnlyOnLiveConnection ==
  mail.last.handed => mail.last.server = "logged_in"

\* every application of the bulk call was handed to send_job_application, in
\* the order of the list
AllAttempted ==
  mail.bulk.attempted = [i \in DOMAIN mail.bulk.applications |-> i]

\* C28: a send_bulk_applications call that connected attempted every
\* application in order, returned a dictionary with an entry for each and
\* called disconnect() exactly once; one whose connect() failed returned an
\* empty dictionary and sent nothing.
C28_BulkAttemptsAll ==
  mail.bulk.called =>
    IF mail.bulk.connected
      THEN /\ AllAttempted
           /\ ~mail.bulk.raised
           /\ \A i \in DOMAIN mail.bulk.applications :
                app_id(mail.bulk.applications[i]) \in DictKeys(mail.bulk.results)
           /\ mail.bulk.disconnects = 1
    ELSE /\ ~mail.bulk.raised /\ mail.bulk.results = <<>>
         /\ mail.bulk.handed = 0 /\ mail.bulk.attempted = <<>>

(***************************************************************************)
(* Claims about the scrapers and the other loaders of a job URL.           *)
(***************************************************************************)
ScraperCalled == scrape.entry \in Scrapers

IsLoad(ev) == ev.op \in LoadOps

\* the call validated the URL before event i
ValidatedBefore(i) ==
  \E j \in 1..(i - 1) : scrape.events[j] = Did("validate", scrape.events[i].url)

UrlRejected == validate_job_url(scrape.url) # "ok"

\* C21: in scrape_job of each scraper the URL is validated before any
\* driver.get or requests.get, and a rejected URL is never fetched.
C21_ValidateBeforeNetwork ==
  ScraperCalled =>
    /\ \A i \in DOMAIN scrape.events : IsLoad(scrape.events[i]) => ValidatedBefore(i)
    /\ UrlRejected => \A i \in DOMAIN scrape.events : ~IsLoad(scrape.events[i])

C21_Witness ==
  /\ scrape.entry = "TheHubScraper"
  /\ scrape.url = <<"h", "t", "t", "p", ":", "/", "/", "l", "o", "c", "a", "l", "h", "o", "s", "t", "/", "j", "o", "b", "s">>
  /\ scrape.events = <<Did("validate", scrape.url)>>

ValidationCategories == {"empty", "format", "scheme", "host", "ssrf"}

\* C22: when validation rejects the URL inside a scraper's scrape_job, the
\* caller gets the validation error with its category (SSRF, invalid scheme,
\* ...), not an error of another category such as page structure or fetch.
C22_ValidationErrorSurfaces ==
  (ScraperCalled /\ UrlRejected) =>
    /\ ~scrape.returned
    /\ scrape.error = ScrapeError("ValueError", validate_job_url(scrape.url))

\* C23: wherever a job URL the user supplied is loaded (driver.get,
\* requests.get, link_to_job), validate_job_url accepted that URL earlier in
\* the same call.
C23_EveryLoadValidated ==
  \A i \in DOMAIN scrape.events :
    IsLoad(scrape.events[i]) => (ValidatedBefore(i) /\ ~UrlRejected)

(***************************************************************************)
(* The browser pool.                                                       *)
(***************************************************************************)
\* the Chrome drivers that were started, and those not quit since
Started == {d \in DOMAIN pool.chrome : pool.chrome[d] # "failed"}

Live == {d \in DOMAIN pool.chrome : pool.chrome[d] = "live"}

\* C24: whatever way the threads calling get_instance() / get_driver()
\* interleave, there is one BrowserPool object, init_browser started at most
\* one Chrome, and at most one Chrome is live.
C24_OnePoolOneBrowser ==
  /\ Len(pool._driver) <= 1
  /\ Cardinality(Started) <= 1
  /\ Cardinality(Live) <= 1

\* the calls that hand the pooled driver to their caller and leave it as it
\* was when they got it
DriverCalls == {"get_browser", "with BrowserPool", "initialize_components"}

\* C25: a driver that get_driver() / get_browser() returns has not had
\* quit() called on it.
C25_ReturnedDriverActive ==
  (pool.last.op \in DriverCalls /\ pool.last.returned # 0)
    => pool.last.returned \in Live

\* the pool holds no live driver
PoolEmpty == \A o \in DOMAIN pool._driver : pool._driver[o] \notin Live

\* C26: when the block of `with BrowserPool.get_instance() as driver` is
\* left, normally or by an exception, the pool holds no live driver and the
\* exception of the block reaches the caller.
C26_WithPoolClosesBrowser ==
  (pool.last.op = "with BrowserPool" /\ pool.last.body # "none")
    => PoolEmpty /\ (pool.last.body = "raises" => pool.last.raised)

(***************************************************************************)
(* Claims about the ModelManager.                                          *)
(***************************************************************************)
TemplateOf(template, model) ==
  /\ model \in DOMAIN manager.templates
  /\ template \in Range(manager.templates[model])

\* C29: whenever a model and a template are both selected, the template is
\* one of the templates of the selected model, and
\* create_cv_with_selected_model never generates with a template of another
\* model.
C29_TemplateBelongsToModel ==
  /\ (manager.selected_model # "None" /\ manager.selected_template # "None")
       => TemplateOf(manager.selected_template, manager.selected_model)
  /\ (manager.last.op = "create_cv_with_selected_model" /\ manager.last.model # "None")
       => TemplateOf(manager.last.template, manager.last.model)

(***************************************************************************)
(* Claims about the automated application run.                             *)
(***************************************************************************)
\* C30: a run processes at most max_applications jobs, every processed job
\* is counted in exactly one of applications_sent and applications_failed,
\* emails_sent never exceeds applications_sent, and a run that has ended,
\* by return or by exception, has run cleanup().
C30_StatsAccountForJobs ==
  /\ applier.processed <= applier.max_applications
  /\ applier.stats.applications_sent + applier.stats.applications_failed = applier.processed
  /\ applier.stats.emails_sent <= applier.stats.applications_sent
  /\ applier.pc \in {"returned", "raised"} => applier.cleanups = 1
====
